---- MODULE Spec2Model ----
(***************************************************************************)
(* K8sVersioner: the synchronization engine.                               *)
(*                                                                         *)
(* Two generations of the program live in the repository and both are      *)
(* modelled:                                                               *)
(*   - the catalog program (src/unnamed/part_001 controllers,              *)
(*     src/unnamed/part_002 config, src/git/git.go lines 97-238):          *)
(*     specifications Spec, SpecCatalog and SpecSched;                     *)
(*   - the single-configuration program (src/controllers/controller.go,    *)
(*     src/config/config.go, the same git.go): specification SpecV1.       *)
(*                                                                         *)
(* Go strings are sequences of one-character strings, so concatenation,    *)
(* prefixes and suffixes are computed as the code computes them.           *)
(***************************************************************************)
EXTENDS Integers, Sequences, FiniteSets, TLC

(***************************************************************************)
(* Bounds of the model.                                                    *)
(***************************************************************************)
MaxRev == 1

(***************************************************************************)
(* String helpers and literals.                                            *)
(***************************************************************************)
NoStr == << >>

HasSuffix(s, suf) ==
  /\ Len(s) >= Len(suf)
  /\ SubSeq(s, Len(s) - Len(suf) + 1, Len(s)) = suf

Slash == <<"/">>

HttpsScheme == <<"h", "t", "t", "p", "s", ":", "/", "/">>

HttpScheme == <<"h", "t", "t", "p", ":", "/", "/">>

YamlExt == <<".", "y", "a", "m", "l">>

ClusterPlaceholder == <<"c", "l", "u", "s", "t", "e", "r">>

Star == <<"*">>

AllSelector == <<"a", "l", "l">>

(* Index of the first "@" of s, 0 when there is none. *)
RECURSIVE IndexOfAt(_, _)
IndexOfAt(s, i) ==
  IF i > Len(s) THEN 0
  ELSE IF s[i] = "@" THEN i
  ELSE IndexOfAt(s, i + 1)

Contains(s, c) == \E i \in 1..Len(s) : s[i] = c

(* strings.Split(s, "@")[0] *)
BeforeAt(s) ==
  IF IndexOfAt(s, 1) = 0 THEN s ELSE SubSeq(s, 1, IndexOfAt(s, 1) - 1)

(***************************************************************************)
(* config: the catalog types (part_002).                                   *)
(***************************************************************************)
MapKeySeparator == Slash

MapKey(name, namespace) == name \o MapKeySeparator \o namespace

ResourceFilter(name, apiVersion, withManagedFields, withStatusField) ==
  [name |-> name, apiVersion |-> apiVersion,
   withManagedFields |-> withManagedFields, withStatusField |-> withStatusField]

ConfigSpec(namespace, includeResource, outputType, gitRef, kubeConfig, folderStructure) ==
  [namespace |-> namespace, includeResource |-> includeResource,
   outputType |-> outputType, gitRef |-> gitRef, kubeConfig |-> kubeConfig,
   folderStructure |-> folderStructure]

(* Config embeds ObjectMeta: cfg.Name and cfg.Namespace are the metadata's. *)
Config(name, namespace, spec) ==
  [name |-> name, namespace |-> namespace, spec |-> spec]

GitConfig(name, namespace, protocol, url, branch, user, pass, key, path, folder, dryRun) ==
  [name |-> name, namespace |-> namespace, protocol |-> protocol,
   repositoryURL |-> url, branch |-> branch, username |-> user, password |-> pass,
   sshPrivateKeyPath |-> key, repositoryPath |-> path, repositoryFolder |-> folder,
   dryRun |-> dryRun]

ConfigStore(cfg, gitCfg) == [config |-> cfg, gitConfig |-> gitCfg]


(***************************************************************************)
(* Field validation of the catalog loader (go-playground/validator tags).  *)
(* "required" fails on the zero value of the field's type: the empty       *)
(* string, and false for a bool.                                           *)
(***************************************************************************)
Letters == {"a", "b", "c", "d", "e", "f", "g", "h", "i", "j", "k", "l", "m",
            "n", "o", "p", "q", "r", "s", "t", "u", "v", "w", "x", "y", "z"}

LowerCase == <<"a", "b", "c", "d", "e", "f", "g", "h", "i", "j", "k", "l", "m",
               "n", "o", "p", "q", "r", "s", "t", "u", "v", "w", "x", "y", "z">>

UpperCase == <<"A", "B", "C", "D", "E", "F", "G", "H", "I", "J", "K", "L", "M",
               "N", "O", "P", "Q", "R", "S", "T", "U", "V", "W", "X", "Y", "Z">>

DigitChars == {"0", "1", "2", "3", "4", "5", "6", "7", "8", "9"}

SchemeMarks == DigitChars \cup {"+", "-", "."}

(* strings.ToLower on the letters A-Z. *)
ToLower(s) ==
  [i \in 1..Len(s) |->
     IF \E k \in 1..Len(UpperCase) : UpperCase[k] = s[i]
     THEN LowerCase[CHOOSE k \in 1..Len(UpperCase) : UpperCase[k] = s[i]]
     ELSE s[i]]

(* strings.Index of a character from position i on; 0 when there is none. *)
RECURSIVE IndexOfChar(_, _, _)
IndexOfChar(s, ch, i) ==
  IF i > Len(s) THEN 0
  ELSE IF s[i] = ch THEN i
  ELSE IndexOfChar(s, ch, i + 1)

(* strings.LastIndex of a character; 0 when there is none. *)
RECURSIVE LastIndexOfChar(_, _, _)
LastIndexOfChar(s, ch, i) ==
  IF i < 1 THEN 0
  ELSE IF s[i] = ch THEN i
  ELSE LastIndexOfChar(s, ch, i - 1)

(* The part of s before the first ch (all of s when there is none), and    *)
(* the part after it.                                                      *)
Before(s, ch) ==
  IF IndexOfChar(s, ch, 1) = 0 THEN s ELSE SubSeq(s, 1, IndexOfChar(s, ch, 1) - 1)

After(s, ch) ==
  IF IndexOfChar(s, ch, 1) = 0 THEN NoStr ELSE SubSeq(s, IndexOfChar(s, ch, 1) + 1, Len(s))

(* net/url getScheme: the position of the colon that ends the scheme, 0    *)
(* when the value has no scheme (or starts with the colon, an error).      *)
SchemeEnd(s) ==
  LET c == IndexOfChar(s, ":", 1) IN
    IF /\ c > 1
       /\ s[1] \in Letters
       /\ \A i \in 1..(c - 1) : s[i] \in Letters \cup SchemeMarks
    THEN c ELSE 0

(* net/url parseHost: a colon in the host is followed by digits only. *)
ValidPort(host) ==
  LET c == LastIndexOfChar(host, ":", Len(host)) IN
    c = 0 \/ \A i \in (c + 1)..Len(host) : host[i] \in DigitChars

(* The authority of "//authority/path": what follows the last "@" is the   *)
(* host.                                                                   *)
HostOf(authority) ==
  SubSeq(authority, LastIndexOfChar(authority, "@", Len(authority)) + 1, Len(authority))

FilePrefix == <<"f", "i", "l", "e", ":", "/">>

(***************************************************************************)
(* validator isFileURL: the value begins with "file:/" and                 *)
(* url.ParseRequestURI accepts it.  ParseRequestURI cuts no fragment: it   *)
(* cuts the query at the first "?", and for a rest "//authority/path" it   *)
(* parses the authority, where a "#" is an error and a colon in the host   *)
(* is followed by digits only.                                             *)
(***************************************************************************)
isFileURL(s) ==
  LET rest == Before(SubSeq(s, Len(FilePrefix), Len(s)), "?")
      authority == Before(SubSeq(rest, 3, Len(rest)), "/")
  IN /\ Len(s) >= Len(FilePrefix)
     /\ SubSeq(s, 1, Len(FilePrefix)) = FilePrefix
     /\ (Len(rest) >= 2 /\ rest[2] = "/") =>
           (~Contains(authority, "#") /\ ValidPort(HostOf(authority)))

(***************************************************************************)
(* validate:"url" (validator v10, isURL): the lower-cased value is a file  *)
(* URL, or it parses with url.Parse, has a scheme, and has a host, an      *)
(* opaque part or a fragment.  url.Parse cuts the fragment at the first    *)
(* "#", reads the scheme, cuts the query at the first "?"; a rest that     *)
(* does not begin with "/" is the opaque part, a rest "//authority/path"   *)
(* has the host of the authority, any other rest is the path.  The values  *)
(* are strings of letters, digits and + - . : / @ # ?                      *)
(***************************************************************************)
IsURL(s) ==
  LET parsed(u, frag) ==
        LET c == SchemeEnd(u)
            rest == Before(SubSeq(u, c + 1, Len(u)), "?")
            opaque == rest = NoStr \/ rest[1] # "/"
            hasAuthority == Len(rest) >= 2 /\ rest[1] = "/" /\ rest[2] = "/"
            host == IF hasAuthority
                    THEN HostOf(Before(SubSeq(rest, 3, Len(rest)), "/"))
                    ELSE NoStr
        IN /\ c > 0
           /\ ValidPort(host)
           /\ \/ host # NoStr
              \/ (opaque /\ rest # NoStr)
              \/ frag # NoStr
  IN \/ isFileURL(ToLower(s))
     \/ parsed(Before(ToLower(s), "#"), After(ToLower(s), "#"))

RequiredStr(s) == s # NoStr

RequiredBool(b) == b

ValidResourceFilter(f) == RequiredStr(f.name) /\ RequiredStr(f.apiVersion)

(* validate:"file": the value names an existing file of the host. *)
HostFiles == {<<"/", "k">>}

ValidConfigSpec(c) ==
  /\ RequiredStr(c.namespace)
  /\ \A i \in 1..Len(c.includeResource) : ValidResourceFilter(c.includeResource[i])
  /\ c.outputType \in {"yaml", "json"}
  /\ RequiredStr(c.gitRef)
  /\ RequiredStr(c.kubeConfig) /\ c.kubeConfig \in HostFiles
  /\ RequiredStr(c.folderStructure)

ValidGitConfigSpec(g) ==
  /\ g.protocol \in {"http", "https", "ssh"}
  /\ RequiredStr(g.repositoryURL) /\ IsURL(g.repositoryURL)
  /\ RequiredStr(g.branch)
  /\ RequiredStr(g.username)
  /\ RequiredStr(g.password)
  /\ (g.protocol = "ssh" => RequiredStr(g.sshPrivateKeyPath))
  /\ RequiredStr(g.repositoryPath)
  /\ RequiredStr(g.repositoryFolder)
  /\ RequiredBool(g.dryRun)

(***************************************************************************)
(* LoadConfigs / LoadGitConfigs / LoadConfigStore (part_002 165-263).      *)
(* crd is what the cluster holds when the loader lists it:                 *)
(* [configs: sequence of Config, gitConfigs: sequence of GitConfig].       *)
(* The result is [err |-> TRUE] or [err |-> FALSE, pairs |-> ...].         *)
(***************************************************************************)
LoadConfigs(crd) ==
  IF \E i \in 1..Len(crd.configs) : ~ValidConfigSpec(crd.configs[i].spec)
  THEN [err |-> TRUE, configs |-> << >>]
  ELSE [err |-> FALSE, configs |-> crd.configs]

(* The map is filled in list order: a later item with the same key wins. *)
LastIndexWithKey(gs, k) ==
  CHOOSE i \in 1..Len(gs) :
    /\ MapKey(gs[i].name, gs[i].namespace) = k
    /\ \A j \in (i + 1)..Len(gs) : MapKey(gs[j].name, gs[j].namespace) # k

GitMapOf(gs) ==
  [k \in {MapKey(gs[i].name, gs[i].namespace) : i \in 1..Len(gs)} |->
     gs[LastIndexWithKey(gs, k)]]

LoadGitConfigs(crd) ==
  IF \E i \in 1..Len(crd.gitConfigs) : ~ValidGitConfigSpec(crd.gitConfigs[i])
  THEN [err |-> TRUE, gitConfigs |-> << >>]
  ELSE [err |-> FALSE, gitConfigs |-> GitMapOf(crd.gitConfigs)]

LoadConfigStoreSkippingMissing(crd) ==
  LET cs == LoadConfigs(crd)
      gs == LoadGitConfigs(crd)
      found == SelectSeq(cs.configs,
                 LAMBDA c : MapKey(c.spec.gitRef, c.namespace) \in DOMAIN gs.gitConfigs)
  IN IF cs.err \/ gs.err THEN [err |-> TRUE, pairs |-> << >>]
     ELSE [err |-> FALSE,
           pairs |-> [i \in 1..Len(found) |->
              ConfigStore(found[i],
                          gs.gitConfigs[MapKey(found[i].spec.gitRef, found[i].namespace)])]]

LoadConfigStore(crd) ==
  LET cs == LoadConfigs(crd)
      gs == LoadGitConfigs(crd)
  IN IF cs.err THEN [err |-> TRUE, pairs |-> << >>]
     ELSE IF gs.err THEN [err |-> TRUE, pairs |-> << >>]
     ELSE IF \E i \in 1..Len(cs.configs) :
               MapKey(cs.configs[i].spec.gitRef, cs.configs[i].namespace)
                 \notin DOMAIN gs.gitConfigs
     THEN [err |-> TRUE, pairs |-> << >>]
     ELSE [err |-> FALSE,
           pairs |-> [i \in 1..Len(cs.configs) |->
              ConfigStore(cs.configs[i],
                          gs.gitConfigs[MapKey(cs.configs[i].spec.gitRef,
                                               cs.configs[i].namespace)])]]

(***************************************************************************)
(* ConfigManager (part_002 23-81).  gitMap and configMap are the cache     *)
(* fields; no code assigns them anything but nil.                          *)
(***************************************************************************)
Nil == "nil"

NewConfigManager(cfg) == [cfg |-> cfg, gitMap |-> Nil, configMap |-> Nil]

LastPairWithGitKey(pairs, k) ==
  CHOOSE i \in 1..Len(pairs) :
    /\ MapKey(pairs[i].gitConfig.name, pairs[i].gitConfig.namespace) = k
    /\ \A j \in (i + 1)..Len(pairs) :
         MapKey(pairs[j].gitConfig.name, pairs[j].gitConfig.namespace) # k

GetGitMap(m) ==
  IF m.gitMap # Nil THEN m.gitMap
  ELSE [k \in {MapKey(m.cfg[i].gitConfig.name, m.cfg[i].gitConfig.namespace) :
                 i \in 1..Len(m.cfg)} |->
          m.cfg[LastPairWithGitKey(m.cfg, k)].gitConfig]

LastPairWithName(pairs, n) ==
  CHOOSE i \in 1..Len(pairs) :
    /\ pairs[i].config.name = n
    /\ \A j \in (i + 1)..Len(pairs) : pairs[j].config.name # n

GetConfigMap(m) ==
  IF m.configMap # Nil THEN m.configMap
  ELSE [n \in {m.cfg[i].config.name : i \in 1..Len(m.cfg)} |->
          m.cfg[LastPairWithName(m.cfg, n)].config]

(* Reload: the manager after Reload read crd, and the error it returns. *)
Reload(m, crd) ==
  LET r == LoadConfigStore(crd) IN
    IF r.err THEN [err |-> TRUE, cm |-> m]
    ELSE [err |-> FALSE, cm |-> [cfg |-> r.pairs, gitMap |-> Nil, configMap |-> Nil]]

(***************************************************************************)
(* The cluster: the live resources the dynamic client lists, and the       *)
(* discovery information the REST mapper resolves kinds with.              *)
(* A resource object is a function from its top-level keys to values.      *)
(***************************************************************************)
PodKind == <<"P", "o", "d">>

V1 == <<"v", "1">>

ConfigMapKind == <<"C", "M">>

(* A kind discovery does not know. *)
JobKind == <<"J", "o", "b">>

NsA == <<"a">>

NsB == <<"b">>

(* The namespaces the cluster reports, in the order of its list. *)
ClusterNamespaces == << NsA, NsB >>

(* The resources that can exist: [namespace, kind, apiVersion, name,      *)
(* status]; status: the object has a status key (a ConfigMap has none).   *)
Items ==
  << [namespace |-> NsA, kind |-> PodKind, apiVersion |-> V1, name |-> <<"p">>,
      status |-> TRUE],
     [namespace |-> NsB, kind |-> PodKind, apiVersion |-> V1, name |-> <<"p">>,
      status |-> TRUE],
     [namespace |-> NsA, kind |-> ConfigMapKind, apiVersion |-> V1, name |-> <<"c">>,
      status |-> FALSE] >>

(* The items that come and go while the program runs; the others exist    *)
(* or not from the start.                                                 *)
ChangingItems == { 1 }

(* (apiVersion, kind) pairs discovery can map to a listable resource. *)
Discovery == { <<V1, PodKind>>, <<V1, ConfigMapKind>> }

(* The object the API returns for item i at revision rev. *)
ObjectOf(i, rev) ==
  [k \in {"apiVersion", "kind", "metadata", "spec"}
            \cup (IF Items[i].status THEN {"status"} ELSE {}) |->
     CASE k = "apiVersion" -> Items[i].apiVersion
       [] k = "kind" -> Items[i].kind
       [] k = "metadata" -> [name |-> Items[i].name,
                             namespace |-> Items[i].namespace,
                             managedFields |-> <<"kubelet">>]
       [] k = "spec" -> rev
       [] k = "status" -> rev]

(* resourceClient.List of one mapping in one namespace ("" = every one). *)
List(cl, kind, namespace) ==
  LET idx == SelectSeq([i \in 1..Len(Items) |-> i],
               LAMBDA i : /\ cl[i] > 0
                          /\ Items[i].kind = kind
                          /\ (namespace = NoStr \/ Items[i].namespace = namespace))
  IN [j \in 1..Len(idx) |-> ObjectOf(idx[j], cl[idx[j]])]

(***************************************************************************)
(* controllers: helpers of sync (part_001 195-217).                        *)
(***************************************************************************)
matchFilters(item, labels, annotations) == TRUE

isExcluded(item, exclude) == FALSE

generateFilePath(structure, item) ==
  LET namespace == IF item["metadata"].namespace = NoStr
                   THEN ClusterPlaceholder
                   ELSE item["metadata"].namespace
  IN namespace \o Slash \o item["kind"] \o Slash \o item["metadata"].name \o YamlExt

(* item.SetManagedFields(nil) *)
SetManagedFieldsNil(item) ==
  [item EXCEPT !["metadata"] =
     [k \in DOMAIN item["metadata"] \ {"managedFields"} |-> item["metadata"][k]]]

DeleteStatusKeeping(item) == item

(* delete(item.Object, "status") *)
DeleteStatus(item) == [k \in DOMAIN item \ {"status"} |-> item[k]]

(* yaml.Marshal / json.MarshalIndent: keys in sorted order, so the bytes  *)
(* are a function of the format and of the object.                        *)
Marshal(outputType, item) ==
  [format |-> IF outputType = "yaml" THEN "yaml" ELSE "json", object |-> item]

(***************************************************************************)
(* git: GitClient (git.go 97-238).                                         *)
(* The host's directories are wc: a function from each existing local     *)
(* path to its working copy                                                *)
(*   [origin, branch, files, head, pushed]                                 *)
(* files is the working tree, head the tree of the last commit, pushed     *)
(* the tree of the last commit delivered to origin.                        *)
(* The outcomes of the calls into go-git and the host are inputs, o.       *)
(***************************************************************************)
Op(op, arg) == [op |-> op, arg |-> arg]

GitUser == <<"g", "i", "t">>

newHttpAuth(cfg) ==
  [kind |-> "basic", username |-> cfg.username, password |-> cfg.password]

(* ssh.NewPublicKeysFromFile("git", cfg.SSHPrivateKeyPath, cfg.Password) *)
NewPublicKeysFromFile(user, pemFile, password) ==
  [kind |-> "publickeys", username |-> user, password |-> password]

(* dir := cfg.RepositoryPath (+ "/") + cfg.RepositoryFolder *)
LocalDir(cfg) ==
  IF HasSuffix(cfg.repositoryPath, Slash)
  THEN cfg.repositoryPath \o cfg.repositoryFolder
  ELSE cfg.repositoryPath \o Slash \o cfg.repositoryFolder

(* The remotes a clone can reach. *)
Remotes == { HttpsScheme \o <<"h", ":", "1">>,
             HttpsScheme \o <<"h", ":", "2">>,
             <<"s", "s", "h", ":", "/", "/", "h", "/", "1">> }

EmptyTree == << >>

ClonedCopy(url, branch) ==
  [origin |-> url, branch |-> branch, files |-> EmptyTree, head |-> EmptyTree,
   pushed |-> EmptyTree]

(* cfg after the ssh branch: the user part of the URL is stored in it. *)
SshUsername(cfg) ==
  IF Contains(cfg.repositoryURL, "@") /\ BeforeAt(cfg.repositoryURL) # NoStr
  THEN [cfg EXCEPT !.username = BeforeAt(cfg.repositoryURL)]
  ELSE cfg

PushFlagIgnoringDryRun(cfg) == TRUE

(* push := true; if cfg.DryRun { push = false } *)
PushFlag(cfg) == IF cfg.dryRun THEN FALSE ELSE TRUE

(* NewGitClient cloning whether or not the directory exists. *)
NewGitClientCloningAgain(cfg, w, o) ==
  LET keyErr == cfg.protocol = "ssh" /\ o.key = "error"
      auth == IF cfg.protocol = "ssh"
              THEN NewPublicKeysFromFile(GitUser, cfg.sshPrivateKeyPath, cfg.password)
              ELSE newHttpAuth(cfg)
      url == CASE cfg.protocol = "https" -> HttpsScheme \o cfg.repositoryURL
               [] cfg.protocol = "http" -> HttpScheme \o cfg.repositoryURL
               [] OTHER -> cfg.repositoryURL
      cfg2 == IF cfg.protocol = "ssh" /\ ~keyErr THEN SshUsername(cfg) ELSE cfg
      dir == LocalDir(cfg)
      client == [repo |-> dir, auth |-> auth, branch |-> cfg.branch, dir |-> dir,
                 push |-> PushFlag(cfg)]
      fail(ops) == [err |-> TRUE, client |-> Nil, wc |-> w, cfg |-> cfg2, ops |-> ops]
  IN IF cfg.protocol \notin {"https", "http", "ssh"} \/ keyErr THEN fail(<< >>)
     ELSE IF url \in Remotes /\ o.clone = "ok"
     THEN [err |-> FALSE, client |-> client,
           wc |-> (dir :> ClonedCopy(url, cfg.branch)) @@ w,
           cfg |-> cfg2, ops |-> << Op("clone", url) >>]
     ELSE fail(<< Op("cloneFail", url) >>)

(* The result: [err, client, wc, cfg, ops]; cfg is the caller's object,    *)
(* which the ssh branch writes to.                                        *)
NewGitClient(cfg, w, o) ==
  LET known == cfg.protocol \in {"https", "http", "ssh"}
      keyErr == cfg.protocol = "ssh" /\ o.key = "error"
      auth == IF cfg.protocol = "ssh"
              THEN NewPublicKeysFromFile(GitUser, cfg.sshPrivateKeyPath, cfg.password)
              ELSE newHttpAuth(cfg)
      url == CASE cfg.protocol = "https" -> HttpsScheme \o cfg.repositoryURL
               [] cfg.protocol = "http" -> HttpScheme \o cfg.repositoryURL
               [] OTHER -> cfg.repositoryURL
      cfg2 == IF cfg.protocol = "ssh" /\ ~keyErr THEN SshUsername(cfg) ELSE cfg
      dir == LocalDir(cfg)
      client == [repo |-> dir, auth |-> auth, branch |-> cfg.branch, dir |-> dir,
                 push |-> PushFlag(cfg)]
      fail(ops) == [err |-> TRUE, client |-> Nil, wc |-> w, cfg |-> cfg2, ops |-> ops]
  IN IF ~known \/ keyErr THEN fail(<< >>)
     ELSE IF dir \notin DOMAIN w
     THEN IF url \in Remotes /\ o.clone = "ok"
          THEN [err |-> FALSE, client |-> client,
                wc |-> (dir :> ClonedCopy(url, cfg.branch)) @@ w,
                cfg |-> cfg2, ops |-> << Op("clone", url) >>]
          ELSE fail(<< Op("cloneFail", url) >>)
     ELSE [err |-> FALSE, client |-> client, wc |-> w, cfg |-> cfg2,
           ops |-> << Op("open", dir) >>]

(* SaveResource leaving the file it writes alone in the working tree. *)
SaveResourceAlone(g, w, path, data, o) ==
  IF o.save = "error"
  THEN [err |-> TRUE, wc |-> w, ops |-> << Op("writeFail", path) >>]
  ELSE [err |-> FALSE,
        wc |-> [w EXCEPT ![g.dir].files = (path :> data)],
        ops |-> << Op("write", path) >>]

(* SaveResource: MkdirAll, then WriteFile. The result: [err, wc, ops]. *)
SaveResource(g, w, path, data, o) ==
  IF o.save = "error"
  THEN [err |-> TRUE, wc |-> w, ops |-> << Op("writeFail", path) >>]
  ELSE [err |-> FALSE,
        wc |-> [w EXCEPT ![g.dir].files = (path :> data) @@ @],
        ops |-> << Op("write", path) >>]

(* What w.Commit can return on the tree as staged: go-git either creates   *)
(* a commit of an unchanged tree or returns ErrEmptyCommit, by version.    *)
CommitResults(copy) ==
  IF copy.files = copy.head THEN {"ok", "ErrEmptyCommit", "error"}
  ELSE {"ok", "error"}

PushErrorIsFailure(res) == res # "ok"

AfterPushFailureUndoingCommit(w, wCommitted) == w

(* if err := g.repo.PushContext(...); ... { return err }: nothing of the   *)
(* working copy is undone.                                                 *)
AfterPushFailure(w, wCommitted) == wCommitted

(* err != nil && err != git.NoErrAlreadyUpToDate *)
PushIsFailure(res) == res # "ok" /\ res # "NoErrAlreadyUpToDate"

(* CommitAndPush pushing whatever w.Commit returned. *)
CommitAndPushAfterFailedCommit(g, w, o) ==
  LET copy == w[g.dir]
      committed == [copy EXCEPT !.head = copy.files]
      staged == Op("add", IF copy.files = copy.head THEN "clean" ELSE "changed")
  IN IF o.add = "error"
     THEN [err |-> TRUE, wc |-> w, ops |-> << Op("add", "error") >>]
     ELSE IF ~g.push
     THEN [err |-> o.commit # "ok",
           wc |-> IF o.commit = "ok" THEN [w EXCEPT ![g.dir] = committed] ELSE w,
           ops |-> << staged, Op("commit", o.commit) >>]
     ELSE [err |-> o.commit # "ok" \/ PushIsFailure(o.push),
           wc |-> IF o.commit = "ok" THEN [w EXCEPT ![g.dir] = committed] ELSE w,
           ops |-> << staged, Op("commit", o.commit), Op("push", o.push) >>]

(* The result: [err, wc, ops]. *)
CommitAndPush(g, w, o) ==
  LET copy == w[g.dir]
      committed == [copy EXCEPT !.head = copy.files]
      wCommitted == [w EXCEPT ![g.dir] = committed]
      wPushed == [w EXCEPT ![g.dir] = [committed EXCEPT !.pushed = copy.files]]
      (* w.Add("."): the arg records whether the tree differs from HEAD. *)
      staged == Op("add", IF copy.files = copy.head THEN "clean" ELSE "changed")
  IN IF o.add = "error"
     THEN [err |-> TRUE, wc |-> w, ops |-> << Op("add", "error") >>]
     ELSE IF o.commit # "ok"
     THEN [err |-> TRUE, wc |-> w, ops |-> << staged, Op("commit", o.commit) >>]
     ELSE IF ~g.push
     THEN [err |-> FALSE, wc |-> wCommitted, ops |-> << staged, Op("commit", "ok") >>]
     ELSE [err |-> PushIsFailure(o.push),
           wc |-> IF o.push = "ok" THEN wPushed ELSE AfterPushFailure(w, wCommitted),
           ops |-> << staged, Op("commit", "ok"), Op("push", o.push) >>]

(***************************************************************************)
(* controllers: sync (part_001 105-193), one tenant config into one        *)
(* working copy.  Each result is [wc, ops].                                *)
(***************************************************************************)
(* What names an object of the cluster: kind, namespace, name. *)
ItemKey(item) == << item["kind"], item["metadata"].namespace, item["metadata"].name >>

(* The body of the loop over list.Items, from item j on. *)
RECURSIVE SyncItems(_, _, _, _, _, _, _)
SyncItems(cfg, resFilter, items, j, g, w, o) ==
  IF j > Len(items) THEN [wc |-> w, ops |-> << >>]
  ELSE
    LET item == items[j]
        skipped == ~matchFilters(item, << >>, << >>) \/ isExcluded(item, << >>)
        item1 == IF ~resFilter.withManagedFields THEN SetManagedFieldsNil(item) ELSE item
        item2 == IF ~resFilter.withStatusField THEN DeleteStatus(item1) ELSE item1
        data == Marshal(cfg.spec.outputType, item2)
        path == generateFilePath(cfg.spec.folderStructure, item2)
        unserializable == ItemKey(item) \in o.marshalFail
        saved == IF unserializable
                 THEN [err |-> TRUE, wc |-> w,
                       ops |-> << Op("marshalFail", ItemKey(item)) >>]
                 ELSE SaveResource(g, w, path, data, o)
        joined(sv, rest) ==
          [wc |-> rest.wc, ops |-> (IF skipped THEN << >> ELSE sv.ops) \o rest.ops]
        after(sv) ==
          joined(sv, SyncItems(cfg, resFilter, items, j + 1, g,
                               IF skipped THEN w ELSE sv.wc, o))
    IN after(saved)

(* The namespace the list call of a filter is made in (part_001 124-129). *)
ListNamespace(selector) ==
  IF selector # NoStr /\ selector # AllSelector THEN selector ELSE NoStr

(* SyncFilters leaving the loop at the first filter that fails. *)
RECURSIVE SyncFiltersAborting(_, _, _, _, _, _)
SyncFiltersAborting(cfg, i, g, w, cl, o) ==
  IF i > Len(cfg.spec.includeResource) THEN [wc |-> w, ops |-> << >>]
  ELSE
    LET resFilter == cfg.spec.includeResource[i]
        rejected == \/ resFilter.name = Star \/ resFilter.name = NoStr
                    \/ resFilter.apiVersion = Star
        mapped == <<resFilter.apiVersion, resFilter.name>> \in Discovery
        namespace == ListNamespace(cfg.namespace)
        failed == rejected \/ ~mapped \/ i \in o.listFail
        joined(body, rest) ==
          [wc |-> rest.wc,
           ops |-> << Op("mapping", <<resFilter.apiVersion, resFilter.name>>),
                      Op("list", <<resFilter.name, namespace>>) >>
                     \o body.ops \o rest.ops]
        after(body) == joined(body, SyncFiltersAborting(cfg, i + 1, g, body.wc, cl, o))
    IN IF failed THEN [wc |-> w, ops |-> << Op("mappingFail", i) >>]
       ELSE after(SyncItems(cfg, resFilter, List(cl, resFilter.name, namespace), 1, g, w, o))

(* The loop over cfg.Spec.IncludeResource, from filter i on. *)
RECURSIVE SyncFilters(_, _, _, _, _, _)
SyncFilters(cfg, i, g, w, cl, o) ==
  IF i > Len(cfg.spec.includeResource) THEN [wc |-> w, ops |-> << >>]
  ELSE
    LET resFilter == cfg.spec.includeResource[i]
        rejected == \/ resFilter.name = Star \/ resFilter.name = NoStr
                    \/ resFilter.apiVersion = Star
        mapped == <<resFilter.apiVersion, resFilter.name>> \in Discovery
        namespace == ListNamespace(cfg.namespace)
        listed == i \notin o.listFail
        mapOp == Op("mapping", <<resFilter.apiVersion, resFilter.name>>)
        listOp == Op(IF listed THEN "list" ELSE "listFail", <<resFilter.name, namespace>>)
        written(body) == [wc |-> body.wc, ops |-> << mapOp, listOp >> \o body.ops]
        this == IF rejected THEN [wc |-> w, ops |-> << Op("rejected", i) >>]
                ELSE IF ~mapped THEN [wc |-> w, ops |-> << mapOp, Op("mappingFail", i) >>]
                ELSE IF ~listed THEN [wc |-> w, ops |-> << mapOp, listOp >>]
                ELSE written(SyncItems(cfg, resFilter,
                                       List(cl, resFilter.name, namespace), 1, g, w, o))
        joined(th, rest) == [wc |-> rest.wc, ops |-> th.ops \o rest.ops]
        after(th) == joined(th, SyncFilters(cfg, i + 1, g, th.wc, cl, o))
    IN after(this)

(* sync making the working tree a mirror of what it lists: the files of    *)
(* the earlier passes are removed first.                                   *)
syncMirroring(cfg, g, w, cl, o) ==
  LET result(written, pushed) ==
        [err |-> pushed.err, wc |-> pushed.wc, ops |-> written.ops \o pushed.ops]
      commit(written) == result(written, CommitAndPush(g, written.wc, o))
  IN commit(SyncFilters(cfg, 1, g, [w EXCEPT ![g.dir].files = EmptyTree], cl, o))

(* sync: every filter, then one CommitAndPush. The result: [err, wc, ops]. *)
sync(cfg, g, w, cl, o) ==
  LET result(written, pushed) ==
        [err |-> pushed.err, wc |-> pushed.wc, ops |-> written.ops \o pushed.ops]
      commit(written) == result(written, CommitAndPush(g, written.wc, o))
  IN commit(SyncFilters(cfg, 1, g, w, cl, o))

(* What w.Commit may return for cfg's sync: decided by the tree as written. *)
CommitResultsAfterSync(cfg, g, w, cl, o) ==
  CommitResults(SyncFilters(cfg, 1, g, w, cl, o).wc[g.dir])

(***************************************************************************)
(* controllers, the generation of part_000: sync is called once for every  *)
(* include filter, resolves the namespaces itself and commits at its end.  *)
(* Definitions of this generation carry the suffix 0.                      *)
(***************************************************************************)
AllPlaceholder == <<"a", "l", "l">>

(* generateFilePath (part_000 260-269). *)
generateFilePath0(structure, item) ==
  LET namespace == IF item["metadata"].namespace = NoStr
                   THEN AllPlaceholder
                   ELSE item["metadata"].namespace
  IN namespace \o Slash \o item["kind"] \o Slash \o item["metadata"].name \o YamlExt

(* determineNamespaces (part_000 220-237): [err, namespaces]; nsList is    *)
(* what the list of the namespaces resource returns, listed its outcome.   *)
determineNamespaces(namespace, nsList, listed) ==
  IF namespace = Star \/ namespace = AllSelector
  THEN IF listed = "error" THEN [err |-> TRUE, namespaces |-> << >>]
       ELSE [err |-> FALSE, namespaces |-> nsList]
  ELSE IF namespace # NoStr THEN [err |-> FALSE, namespaces |-> << namespace >>]
  ELSE [err |-> FALSE, namespaces |-> << NoStr >>]

(* The body of the loop over list.Items (part_000 148-198), from item j on. *)
RECURSIVE SyncItems0(_, _, _, _, _, _, _)
SyncItems0(cfg, resFilter, items, j, g, w, o) ==
  IF j > Len(items) THEN [wc |-> w, ops |-> << >>]
  ELSE
    LET item == items[j]
        skipped == ~matchFilters(item, << >>, << >>)
        item1 == IF ~resFilter.withManagedFields THEN SetManagedFieldsNil(item) ELSE item
        item2 == IF ~resFilter.withStatusField THEN DeleteStatus(item1) ELSE item1
        data == Marshal(cfg.spec.outputType, item2)
        path == generateFilePath0(cfg.spec.folderStructure, item2)
        saved == IF ItemKey(item) \in o.marshalFail
                 THEN [err |-> TRUE, wc |-> w,
                       ops |-> << Op("marshalFail", ItemKey(item)) >>]
                 ELSE SaveResource(g, w, path, data, o)
        joined(sv, rest) ==
          [wc |-> rest.wc, ops |-> (IF skipped THEN << >> ELSE sv.ops) \o rest.ops]
        after(sv) ==
          joined(sv, SyncItems0(cfg, resFilter, items, j + 1, g,
                                IF skipped THEN w ELSE sv.wc, o))
    IN after(saved)

(* The loop over namespaces (part_000 135-199), from namespace n on. *)
RECURSIVE SyncNamespaces0(_, _, _, _, _, _, _, _)
SyncNamespaces0(cfg, resFilter, namespaces, n, g, w, cl, o) ==
  IF n > Len(namespaces) THEN [wc |-> w, ops |-> << >>]
  ELSE
    LET namespace == namespaces[n]
        listed == <<resFilter.name, namespace>> \notin o.listFail
        listOp == Op(IF listed THEN "list" ELSE "listFail", <<resFilter.name, namespace>>)
        written(body) == [wc |-> body.wc, ops |-> << listOp >> \o body.ops]
        this == IF listed
                THEN written(SyncItems0(cfg, resFilter,
                                        List(cl, resFilter.name, namespace), 1, g, w, o))
                ELSE [wc |-> w, ops |-> << listOp >>]
        joined(th, rest) == [wc |-> rest.wc, ops |-> th.ops \o rest.ops]
        after(th) ==
          joined(th, SyncNamespaces0(cfg, resFilter, namespaces, n + 1, g, th.wc, cl, o))
    IN after(this)

(* w.Commit of this build on the tree as staged: o.empty is what the build *)
(* answers a clean tree with.                                              *)
CommitOutcome0(copy, o) ==
  IF o.commit = "ok" /\ copy.files = copy.head THEN o.empty ELSE o.commit

(* sync (part_000 108-217) for one filter: [err, wc, ops]. *)
sync0(cfg, resFilter, g, w, cl, o) ==
  LET mapped == <<resFilter.apiVersion, resFilter.name>> \in Discovery
      mapOp == Op("mapping", <<resFilter.apiVersion, resFilter.name>>)
      listed(body) == [wc |-> body.wc, ops |-> << mapOp >> \o body.ops]
      result(written, pushed) ==
        [err |-> pushed.err, wc |-> pushed.wc, ops |-> written.ops \o pushed.ops]
      commit(written) ==
        result(written,
               CommitAndPush(g, written.wc,
                 [o EXCEPT !.commit = CommitOutcome0(written.wc[g.dir], o)]))
      resolved(ns) ==
        IF ns.err
        THEN [err |-> TRUE, wc |-> w, ops |-> << Op("namespacesFail", cfg.namespace) >>]
        ELSE IF mapped
        THEN commit(listed(SyncNamespaces0(cfg, resFilter, ns.namespaces, 1, g, w, cl, o)))
        ELSE commit([wc |-> w, ops |-> << mapOp, Op("mappingFail", resFilter.name) >>])
  IN resolved(determineNamespaces(cfg.namespace, ClusterNamespaces, o.nsList))

(* The loop over cfgStore.Spec.IncludeResource of syncResources (part_000  *)
(* 95-100), from filter i on: [wc, ops].                                   *)
RECURSIVE SyncTarget0(_, _, _, _, _, _)
SyncTarget0(cfg, i, g, w, cl, o) ==
  IF i > Len(cfg.spec.includeResource) THEN [wc |-> w, ops |-> << >>]
  ELSE
    LET joined(this, rest) ==
          [wc |-> rest.wc,
           ops |-> this.ops \o << Op(IF this.err THEN "syncFail" ELSE "synced", i) >>
                     \o rest.ops]
        after(this) == joined(this, SyncTarget0(cfg, i + 1, g, this.wc, cl, o))
    IN after(sync0(cfg, cfg.spec.includeResource[i], g, w, cl, o))

(***************************************************************************)
(* controllers: the body of the loop of syncResources (part_001 83-99)     *)
(* for one tenant config.  The result is                                   *)
(*   [abort, wc, gitMap, ops]                                              *)
(* abort: the loop is left (the code has no such path: every failure is    *)
(* a continue); gitMap: the pass's map, whose object NewGitClient wrote.   *)
(***************************************************************************)
Tag(name, ops) == [k \in 1..Len(ops) |-> [cfg |-> name, op |-> ops[k].op, arg |-> ops[k].arg]]

SyncOneWith(cfgStore, gMap, w, cl, o, abortMissing, abortFailure) ==
  LET key == MapKey(cfgStore.spec.gitRef, cfgStore.namespace)
      found == key \in DOMAIN gMap
      synced(ng, gMap2, sy) ==
        [abort |-> abortFailure /\ sy.err, wc |-> sy.wc, gitMap |-> gMap2,
         ops |-> Tag(cfgStore.name, ng.ops \o sy.ops
                       \o << Op(IF sy.err THEN "syncFail" ELSE "synced", key) >>)]
      made(ng, gMap2) ==
        IF ng.err
        THEN [abort |-> abortFailure, wc |-> ng.wc, gitMap |-> gMap2,
              ops |-> Tag(cfgStore.name, ng.ops \o << Op("clientFail", key) >>)]
        ELSE synced(ng, gMap2, sync(cfgStore, ng.client, ng.wc, cl, o))
      withClient(ng) == made(ng, [gMap EXCEPT ![key] = ng.cfg])
  IN IF ~found
     THEN [abort |-> abortMissing, wc |-> w, gitMap |-> gMap,
           ops |-> Tag(cfgStore.name, << Op("gitNotFound", key) >>)]
     ELSE withClient(NewGitClient(gMap[key], w, o))

SyncOneAbortingOnMissing(cfgStore, gMap, w, cl, o) ==
  SyncOneWith(cfgStore, gMap, w, cl, o, TRUE, FALSE)

SyncOneAbortingOnFailure(cfgStore, gMap, w, cl, o) ==
  SyncOneWith(cfgStore, gMap, w, cl, o, FALSE, TRUE)

(* if !ok { continue } ... if err != nil { continue } *)
SyncOne(cfgStore, gMap, w, cl, o) ==
  SyncOneWith(cfgStore, gMap, w, cl, o, FALSE, FALSE)

(***************************************************************************)
(* The inputs of the model.                                                *)
(***************************************************************************)
FilterPod == ResourceFilter(PodKind, V1, FALSE, FALSE)

KubeConfigPath == <<"/", "k">>

SpecFor(gitRef, outputType) ==
  ConfigSpec(NsA, << FilterPod >>, outputType, gitRef, KubeConfigPath, <<"f">>)

NameG1 == <<"g", "1">>

NameG2 == <<"g", "2">>

Cfg1 == Config(<<"c", "1">>, NsA, SpecFor(NameG1, "yaml"))

Cfg2 == Config(<<"c", "2">>, NsA, SpecFor(NameG2, "json"))

(* A repositoryUrl the loader's url rule accepts and "https://" completes.  *)
HostPort1 == <<"h", ":", "1">>

HostPort2 == <<"h", ":", "2">>

(* https. *)
Git1 == GitConfig(NameG1, NsA, "https", HostPort1, <<"m">>, <<"u">>, <<"p">>,
                  NoStr, <<"/", "t">>, <<"1">>, TRUE)

(* https; the path ends in a slash. *)
Git2 == GitConfig(NameG2, NsA, "https", HostPort2, <<"m">>, <<"u">>, <<"p">>,
                  NoStr, <<"/", "t", "/">>, <<"2">>, TRUE)

(* Git2 with dryRun false: the loader's required rule rejects it. *)
Git2Push == [Git2 EXCEPT !.dryRun = FALSE]

(* ssh, passes the loader's validation. *)
Git1Ssh == GitConfig(NameG1, NsA, "ssh", <<"s", "s", "h", ":", "/", "/", "h", "/", "1">>,
                     <<"m">>, <<"u">>, <<"p">>, <<"/", "i">>, <<"/", "t">>, <<"1">>, TRUE)

(* What a cluster can hold as the git target g1: ssh targets of the form   *)
(* user@host:path that name no username.                                   *)
GitScpBob ==
  [Git1Ssh EXCEPT !.repositoryURL = <<"b", "@", "h", ":", "1">>, !.username = NoStr]

GitScpGit ==
  [Git1Ssh EXCEPT !.repositoryURL = GitUser \o <<"@", "h", ":", "1">>, !.username = NoStr]

(* What the cluster holds when kubeController loads the catalog. *)
InitialCrds == { [configs |-> << Cfg1, Cfg2 >>, gitConfigs |-> << Git1, Git2 >>] }

(* The catalogs NewConfigManager is constructed with (part_005 42-52). *)
InitialStores ==
  { LoadConfigStore(crd).pairs : crd \in { c \in InitialCrds : ~LoadConfigStore(c).err } }

(* What the cluster can hold when Reload lists it. *)
CrdStates ==
  { [configs |-> << Cfg1 >>, gitConfigs |-> << Git1Ssh >>],
    [configs |-> << Cfg1, Cfg2 >>, gitConfigs |-> << Git1Ssh >>],
    [configs |-> << Cfg1, Cfg2 >>, gitConfigs |-> << Git1Ssh, Git2Push >>],
    [configs |-> << Cfg1 >>, gitConfigs |-> << GitScpBob >>],
    [configs |-> << Cfg1 >>, gitConfigs |-> << GitScpGit >>] }

(* Some tenant config of crd references a git target crd does not hold. *)
HasMissingGitRef(crd) ==
  \E i \in 1..Len(crd.configs) :
    \A j \in 1..Len(crd.gitConfigs) :
      MapKey(crd.gitConfigs[j].name, crd.gitConfigs[j].namespace)
        # MapKey(crd.configs[i].spec.gitRef, crd.configs[i].namespace)

OkOutcome ==
  [key |-> "ok", clone |-> "ok", listFail |-> {}, marshalFail |-> {}, save |-> "ok",
   add |-> "ok", commit |-> "ok", push |-> "ok"]

(* The outcomes of the calls into go-git, every call of the cluster and of *)
(* the file system succeeding.                                            *)
GitOutcomes ==
  [key : {"ok", "error"}, clone : {"ok", "error"}, listFail : {{}},
   marshalFail : {{}}, save : {"ok"}, add : {"ok", "error"},
   commit : {"ok", "ErrEmptyCommit", "error"},
   push : {"ok", "NoErrAlreadyUpToDate", "error"}]

(***************************************************************************)
(* The inputs of the calls of SpecCalls: one function of the program is    *)
(* applied to every input of a bounded set.                                *)
(***************************************************************************)
FilterPodFull == ResourceFilter(PodKind, V1, TRUE, TRUE)

FilterConfigMap == ResourceFilter(ConfigMapKind, V1, FALSE, FALSE)

FilterJob == ResourceFilter(JobKind, V1, FALSE, FALSE)

FilterStar == ResourceFilter(Star, V1, FALSE, FALSE)

FilterAnyVersion == ResourceFilter(PodKind, Star, FALSE, FALSE)

CallFilters ==
  { FilterPod, FilterPodFull, FilterConfigMap, FilterJob, FilterStar, FilterAnyVersion }

(* metadata.namespace of a Config: a namespace, or none when the custom    *)
(* resource is cluster-scoped.                                             *)
CallNamespaces == { NsA, AllSelector, NoStr }

(* Tenant configs of two filters that pass the loader's validation. *)
CallConfigs ==
  { c \in { Config(<<"c", "1">>, ns,
                   ConfigSpec(NsA, << f1, f2 >>, ot, NameG1, KubeConfigPath, <<"f">>)) :
              f1 \in CallFilters, f2 \in CallFilters, ns \in CallNamespaces,
              ot \in {"yaml", "json"} } :
      ValidConfigSpec(c.spec) }

(* Every item exists; the Pod of namespace b does not. *)
CallClusters ==
  { [i \in 1..Len(Items) |-> 1], [i \in 1..Len(Items) |-> IF i = 2 THEN 0 ELSE 1] }

(* The client and the host of a call: Git1, cloned. *)
CallClient == NewGitClient(Git1, << >>, OkOutcome).client

CallCopy == NewGitClient(Git1, << >>, OkOutcome).wc

(* Outcomes of the cluster calls of sync of part_001: the list of one      *)
(* filter or the serialization of one record fails.                        *)
CallOutcomes ==
  { [OkOutcome EXCEPT !.listFail = lf, !.marshalFail = mf] :
      lf \in { {}, {1}, {2} }, mf \in { {}, { <<PodKind, NsA, <<"p">>>> } } }

(* Outcomes of the cluster calls of sync of part_000: the list of one      *)
(* (kind, namespace) or the serialization of one record fails, or the list *)
(* of the namespaces does; empty is the build's answer to a clean tree.    *)
CallOutcomes0 ==
  { [key |-> "ok", clone |-> "ok", listFail |-> lf, marshalFail |-> mf, save |-> "ok",
     add |-> "ok", commit |-> "ok", push |-> "ok", nsList |-> nl, empty |-> em] :
      lf \in { {}, { <<PodKind, NsA>> }, { <<PodKind, NoStr>> } },
      mf \in { {}, { <<PodKind, NsA, <<"p">>>> } },
      nl \in { "ok", "error" },
      em \in { "ok", "ErrEmptyCommit" } }

(* The selectors namespace resolution is asked about, and what the list    *)
(* of the namespaces resource can return.                                  *)
CallSelectors == { Star, AllSelector, NoStr, NsA, NsB }

CallNamespaceLists == { << >>, << NsA >>, ClusterNamespaces }

(* An object of kind, namespace and name, as the API returns it. *)
ObjectWith(namespace, kind, name, rev) ==
  [apiVersion |-> V1, kind |-> kind,
   metadata |-> [name |-> name, namespace |-> namespace, managedFields |-> <<"kubelet">>],
   spec |-> rev]

(* The arguments of generateFilePath: cluster-scoped objects and objects   *)
(* of namespaces, two of them named like the placeholders.                 *)
CallPathArgs ==
  { [structure |-> st, item |-> ObjectWith(ns, kind, name, rev)] :
      st \in { <<"f">>, <<"g">> },
      ns \in { NoStr, NsA, ClusterPlaceholder, AllPlaceholder },
      kind \in { PodKind, ConfigMapKind },
      name \in { <<"p">>, <<"c">> },
      rev \in { 0, 1 } }

(***************************************************************************)
(* The single-configuration program: config.go and controller.go.          *)
(* Its state is the record v1:                                             *)
(*   cfg      cm.cfg                                                       *)
(*   file     what config.json holds                                       *)
(*   event    a Write event of the file waits in watcher.Events            *)
(*   new      Reload's newCfg                                              *)
(*   sched    StartController/syncResources: "start", "newGitClient",      *)
(*            "waiting", "rlock", "getConfig", "work", "returned", or      *)
(*            "failing" / "exiting" when it is about to end the process,   *)
(*            "failed" / "exited" when it has ended it                     *)
(*   watch    WatchConfig: "idle", "lock" while Reload is in mu.Lock(),    *)
(*            or "returned"                                                *)
(*   startCfg the cfg of StartController, until it enters its loop         *)
(*   startCurrent  cm.cfg is still that Config                             *)
(*   once     the pass is the one of the dry-run branch                    *)
(*   readers  the read locks of cm.mu that are held                        *)
(*   writer   a writer of cm.mu has announced itself and waits            *)
(*   client   the GitClient StartController created                       *)
(*   startGit the GitConfig it was created from                            *)
(*   passCfg  syncResources' cfg                                           *)
(*   reloaded a Reload completed since the start                           *)
(***************************************************************************)
(* dryRun is the field DryRun of Config that StartController reads          *)
(* (controller.go 59).                                                     *)
V1Config(namespace, includeResource, outputType, git, kubeConfig, folderStructure) ==
  [namespace |-> namespace, includeResource |-> includeResource,
   outputType |-> outputType, git |-> git, kubeConfig |-> kubeConfig,
   folderStructure |-> folderStructure, dryRun |-> FALSE]

(* validate:"dir": the value names an existing directory of the host. *)
HostDirs == {<<"/", "t">>}

(* validator.Struct(cfg) of LoadConfig (config.go 59-88, 111-114). *)
ValidV1GitConfig(g) ==
  /\ g.protocol \in {"http", "https", "ssh"}
  /\ RequiredStr(g.repositoryURL) /\ IsURL(g.repositoryURL)
  /\ RequiredStr(g.branch)
  /\ RequiredStr(g.username)
  /\ RequiredStr(g.password)
  /\ RequiredStr(g.repositoryPath) /\ g.repositoryPath \in HostDirs
  /\ RequiredStr(g.repositoryFolder)

ValidV1Config(c) ==
  /\ RequiredStr(c.namespace)
  /\ \A i \in 1..Len(c.includeResource) : ValidResourceFilter(c.includeResource[i])
  /\ c.outputType \in {"yaml", "json"}
  /\ ValidV1GitConfig(c.git)
  /\ RequiredStr(c.kubeConfig) /\ c.kubeConfig \in HostFiles
  /\ RequiredStr(c.folderStructure)

(* LoadConfig: [err, cfg]. *)
LoadConfig(file) ==
  IF ValidV1Config(file) THEN [err |-> FALSE, cfg |-> file]
  ELSE [err |-> TRUE, cfg |-> Nil]

V1GitA == GitConfig(NoStr, NoStr, "https", HostPort1, <<"m">>, <<"u">>, <<"p">>,
                    NoStr, <<"/", "t">>, <<"1">>, TRUE)

(* Another branch, another password, pushing. *)
V1GitB == GitConfig(NoStr, NoStr, "https", HostPort1, <<"d">>, <<"u">>, <<"q">>,
                    NoStr, <<"/", "t">>, <<"1">>, FALSE)

V1CfgA == V1Config(NsA, << FilterPod >>, "yaml", V1GitA, KubeConfigPath, <<"f">>)

V1CfgB == V1Config(NsA, << FilterPod >>, "yaml", V1GitB, KubeConfigPath, <<"f">>)

V1CfgBad == V1Config(NsA, << FilterPod >>, "xml", V1GitB, KubeConfigPath, <<"f">>)

(* V1CfgA in dry-run mode. *)
V1CfgDry == [V1CfgA EXCEPT !.dryRun = TRUE]

(* What config.json is rewritten with while the program runs. *)
V1Writes == { V1CfgA, V1CfgB, V1CfgBad }

(* What config.json can hold when the program starts. *)
V1Files == V1Writes \cup { V1CfgDry }

(* The configurations main can start StartController with. *)
V1StartConfigs == { LoadConfig(f).cfg : f \in { c \in V1Files : ~LoadConfig(c).err } }

V1Initial(c) ==
  [cfg |-> c, file |-> c, startGit |-> c.git, event |-> FALSE, new |-> Nil, sched |-> "start",
   watch |-> "idle", readers |-> 0, writer |-> FALSE, client |-> Nil,
   passCfg |-> Nil, reloaded |-> FALSE, startCfg |-> Nil, startCurrent |-> TRUE,
   once |-> FALSE]

(* The fields sync reads, as a catalog Config (controller.go 90-166 is the *)
(* loop of part_001 106-182 on the fields of the one Config).              *)
V1Tenant(c) ==
  Config(<<"v", "1">>, c.namespace,
         ConfigSpec(c.namespace, c.includeResource, c.outputType, NoStr,
                    c.kubeConfig, c.folderStructure))

(***************************************************************************)
(* The state of the catalog program.                                       *)
(***************************************************************************)
VARIABLES
  cm,         \* the ConfigManager: [cfg, gitMap, configMap]
  lastReload, \* the last Reload call: [crd, err, before, after]
  oneShot,    \* env.OneShot
  sched,      \* StartController: "waiting", "inPass" or "returned"
  tick,       \* a tick is buffered in ticker.C
  cancelled,  \* ctx is cancelled
  active,     \* the number of syncResources calls that have not returned
  passPc,     \* syncResources: "idle", "getConfigMap", "getGitMap" or "loop"
  cfgMap,     \* syncResources' cfgMap
  gitMap,     \* syncResources' gitMap
  cfgStale,   \* Reload installed a catalog after cfgMap was built
  gitStale,   \* Reload installed a catalog after gitMap was built
  mixed,      \* Reload installed a catalog between the two builds
  todo,       \* the keys of cfgMap the range loop has not visited
  ops,        \* the external operations of the pass, in order
  wc,         \* the host's local paths and the working copies in them
  cluster,    \* the revision of every item of Items, 0 when it does not exist
  v1,         \* the state of the single-configuration program (see SpecV1)
  call        \* one call of a function of the program: [fn, in, done, out]

vars == << cm, lastReload, oneShot, sched, tick, cancelled, active, passPc, cfgMap,
           gitMap, cfgStale, gitStale, mixed, todo, ops, wc, cluster, v1, call >>

schedVars == << oneShot, sched, tick, cancelled, active >>

passVars == << passPc, cfgMap, gitMap, cfgStale, gitStale, mixed, todo, ops >>

cmVars == << cm, lastReload >>

(* No Reload has been called. *)
NoReload ==
  [crd |-> [configs |-> << >>, gitConfigs |-> << >>], err |-> FALSE,
   before |-> Nil, after |-> Nil]

InitState ==
  /\ cm \in { NewConfigManager(st) : st \in InitialStores }
  /\ lastReload = NoReload
  /\ oneShot \in BOOLEAN
  /\ sched = "waiting"
  /\ tick = FALSE
  /\ cancelled = FALSE
  /\ active = 0
  /\ passPc = "idle"
  /\ cfgMap = Nil
  /\ gitMap = Nil
  /\ cfgStale = FALSE
  /\ gitStale = FALSE
  /\ mixed = FALSE
  /\ todo = {}
  /\ ops = << >>
  /\ cluster = [i \in 1..Len(Items) |-> IF i \in ChangingItems THEN 1 ELSE 0]
  /\ wc = << >>

(* No function is called on its own. *)
NoCall == [fn |-> "none", in |-> << >>, done |-> FALSE, out |-> << >>]

Init == InitState /\ v1 = V1Initial(V1CfgA) /\ call = NoCall

(***************************************************************************)
(* StartController (part_001 30-71).                                       *)
(***************************************************************************)
BeginPass ==
  /\ active' = active + 1
  /\ passPc' = "getConfigMap"
  /\ cfgMap' = Nil
  /\ gitMap' = Nil
  /\ cfgStale' = FALSE
  /\ gitStale' = FALSE
  /\ mixed' = FALSE
  /\ todo' = {}
  /\ ops' = << >>

(* Where the scheduler is while the pass of a tick runs. *)
SchedDuringPassAsync == "waiting"

(* case <-ticker.C: the loop calls syncResources and resumes on its return. *)
SchedDuringPass == "inPass"

(* if env.OneShot { syncResources(...); return nil } *)
OneShotPass ==
  /\ oneShot /\ sched = "waiting"
  /\ sched' = "inPass"
  /\ BeginPass
  /\ UNCHANGED << call, v1, cmVars, oneShot, tick, cancelled, wc, cluster >>

(* The ticker delivers a tick; ticker.C holds one, a second is dropped. *)
Tick ==
  /\ ~oneShot /\ sched # "returned" /\ ~tick
  /\ tick' = TRUE
  /\ UNCHANGED << call, v1, cmVars, oneShot, sched, cancelled, active, passVars, wc, cluster >>

TickReceivedUnasked(buffered) == TRUE

(* case <-ticker.C: the receive completes only when ticker.C holds a tick. *)
TickReceived(buffered) == buffered

(* The receive taking one tick of a backlog: the ticks that fired during   *)
(* the pass before stay queued behind it.                                  *)
TickPassFromBacklog ==
  /\ ~oneShot /\ sched = "waiting" /\ TickReceived(tick)
  /\ tick' = tick
  /\ sched' = SchedDuringPass
  /\ BeginPass
  /\ UNCHANGED << call, v1, cmVars, oneShot, cancelled, wc, cluster >>

TickPass ==
  /\ ~oneShot /\ sched = "waiting" /\ TickReceived(tick)
  /\ tick' = FALSE
  /\ sched' = SchedDuringPass
  /\ BeginPass
  /\ UNCHANGED << call, v1, cmVars, oneShot, cancelled, wc, cluster >>

Cancel ==
  /\ ~cancelled
  /\ cancelled' = TRUE
  /\ UNCHANGED << call, v1, cmVars, oneShot, sched, tick, active, passVars, wc, cluster >>

(* The scheduler returning at the cancellation, a pass in progress or not. *)
StopDuringPass ==
  /\ ~oneShot /\ sched \in {"waiting", "inPass"} /\ cancelled
  /\ sched' = "returned"
  /\ UNCHANGED << call, v1, cmVars, oneShot, tick, cancelled, active, passVars, wc, cluster >>

(* case <-ctx.Done(): return nil *)
Stop ==
  /\ ~oneShot /\ sched = "waiting" /\ cancelled
  /\ sched' = "returned"
  /\ UNCHANGED << call, v1, cmVars, oneShot, tick, cancelled, active, passVars, wc, cluster >>

(***************************************************************************)
(* syncResources (part_001 73-103).                                        *)
(***************************************************************************)
PassGetConfigMap ==
  /\ passPc = "getConfigMap"
  /\ passPc' = "getGitMap"
  /\ cfgMap' = GetConfigMap(cm)
  /\ cfgStale' = FALSE
  /\ UNCHANGED << call, v1, cmVars, schedVars, gitMap, gitStale, mixed, todo, ops, wc, cluster >>

PassGetGitMap ==
  /\ passPc = "getGitMap"
  /\ passPc' = "loop"
  /\ gitMap' = GetGitMap(cm)
  /\ gitStale' = FALSE
  /\ mixed' = cfgStale
  /\ todo' = DOMAIN cfgMap
  /\ UNCHANGED << call, v1, cmVars, schedVars, cfgMap, cfgStale, ops, wc, cluster >>

(* An outcome no call of this tenant config asks for is left at its default. *)
Asked(cfgStore, o) ==
  LET key == MapKey(cfgStore.spec.gitRef, cfgStore.namespace)
      found == key \in DOMAIN gitMap
      asked(ng) ==
        IF found /\ ~ng.err
        THEN /\ (o.add = "error" => o.commit = "ok")
             /\ (o.commit # "ok" \/ ~ng.client.push => o.push = "ok")
             /\ o.commit \in CommitResultsAfterSync(cfgStore, ng.client, ng.wc, cluster, o)
        ELSE /\ o.commit = "ok" /\ o.add = "ok" /\ o.push = "ok"
             /\ o.save = "ok" /\ o.listFail = {} /\ o.marshalFail = {}
  IN /\ (~found \/ gitMap[key].protocol # "ssh" => o.key = "ok")
     /\ (~found \/ LocalDir(gitMap[key]) \in DOMAIN wc => o.clone = "ok")
     /\ asked(NewGitClient(gitMap[key], wc, o))

(* The objects of the pass's gitMap are those of cm.cfg while no Reload    *)
(* has replaced the catalog since the map was built.                      *)
WriteThrough(m, gMap) ==
  [m EXCEPT !.cfg =
     [i \in 1..Len(m.cfg) |->
        LET k == MapKey(m.cfg[i].gitConfig.name, m.cfg[i].gitConfig.namespace) IN
          IF k \in DOMAIN gMap THEN [m.cfg[i] EXCEPT !.gitConfig = gMap[k]]
          ELSE m.cfg[i]]]

(* One iteration of the range loop over cfgMap (Go visits a map's keys in *)
(* no fixed order).                                                       *)
(***************************************************************************)
(* The calls that take ctx: PlainCloneContext (git.go 171), List (part_001 *)
(* 133), PushContext (git.go 215).  Each reads ctx when it is made, and    *)
(* returns the error of the context once ctx is cancelled.  For a tenant   *)
(* config of n filters, "at" says from which call of the iteration on ctx  *)
(* is cancelled: 0 from the clone on, k from the List of filter k on,      *)
(* n + 1 from the push on, n + 2 (ContextLive) for none.                   *)
(***************************************************************************)
ContextLive(n) == n + 2

FailingLists(at, n) == (IF at = 0 THEN 1 ELSE at)..n

ContextOutcomes(outcomes, at, n) ==
  IF at = ContextLive(n) THEN outcomes
  ELSE UNION { { [o EXCEPT !.clone = c, !.listFail = l, !.push = p] :
                   c \in IF at = 0 THEN {"ok", "error"} ELSE {o.clone},
                   l \in {{}, FailingLists(at, n)}, p \in {"ok", "error"} } :
               o \in outcomes }

(* o is what the calls return under ctx: cloneAsked, listAsked, pushAsked  *)
(* say which of them are made.                                             *)
UnderContext(o, at, cloneAsked, listAsked, pushAsked, n) ==
  at # ContextLive(n) =>
    /\ (at = 0 /\ cloneAsked => o.clone = "error")
    /\ (listAsked => o.listFail = FailingLists(at, n))
    /\ (pushAsked => o.push = "error")

(* UnderContext for one iteration of the loop of syncResources. *)
PassUnderContext(cfgStore, o, at) ==
  LET key == MapKey(cfgStore.spec.gitRef, cfgStore.namespace)
      n == Len(cfgStore.spec.includeResource)
      under(ng) ==
        UnderContext(o, at, LocalDir(gitMap[key]) \notin DOMAIN wc, ~ng.err,
                     ~ng.err /\ ng.client.push /\ o.add = "ok" /\ o.commit = "ok", n)
  IN key \in DOMAIN gitMap => under(NewGitClient(gitMap[key], wc, o))

(* One iteration of the loop of syncResources, for the tenant config name, *)
(* with ctx cancelled from the call "at" on.                               *)
PassIteration(outcomes, name, at) ==
  \E o \in ContextOutcomes(outcomes, at, Len(cfgMap[name].spec.includeResource)) :
    LET done(r) ==
          /\ wc' = r.wc
          /\ gitMap' = r.gitMap
          /\ cm' = IF gitStale THEN cm ELSE WriteThrough(cm, r.gitMap)
          /\ ops' = ops \o r.ops
          /\ todo' = IF r.abort THEN {} ELSE todo \ {name}
    IN /\ Asked(cfgMap[name], o)
       /\ PassUnderContext(cfgMap[name], o, at)
       /\ done(SyncOne(cfgMap[name], gitMap, wc, cluster, o))

PassSyncOneWith(outcomes) ==
  /\ passPc = "loop"
  /\ \E name \in todo :
       PassIteration(outcomes, name,
                     IF cancelled THEN 0
                     ELSE ContextLive(Len(cfgMap[name].spec.includeResource)))
  /\ UNCHANGED << call, v1, lastReload, schedVars, passPc, cfgMap, cfgStale, gitStale, mixed,
                  cluster >>

(* An iteration during which ctx is cancelled: the calls made before the   *)
(* cancellation return as on a live context, the later ones its error.    *)
PassSyncOneCancelled ==
  /\ passPc = "loop" /\ ~cancelled
  /\ \E name \in todo :
       \E at \in 1..(Len(cfgMap[name].spec.includeResource) + 1) :
         PassIteration(GitOutcomes, name, at)
  /\ cancelled' = TRUE
  /\ UNCHANGED << call, v1, lastReload, oneShot, sched, tick, active, passPc, cfgMap,
                  cfgStale, gitStale, mixed, cluster >>

PassSyncOne == PassSyncOneWith(GitOutcomes)

(* Every external call succeeds. *)
PassSyncOneOk == PassSyncOneWith({OkOutcome})

SchedAfterPassLooping(one) == "waiting"

(* After syncResources returns: return nil in one-shot mode (part_001      *)
(* 50-55), the next round of the loop otherwise (part_001 60-70).          *)
SchedAfterPass(one) == IF one THEN "returned" ELSE "waiting"

(* return nil *)
PassReturn ==
  /\ passPc = "loop" /\ todo = {}
  /\ passPc' = "idle"
  /\ active' = active - 1
  /\ sched' = IF sched # "inPass" THEN sched ELSE SchedAfterPass(oneShot)
  /\ cfgMap' = Nil
  /\ gitMap' = Nil
  /\ cfgStale' = FALSE
  /\ gitStale' = FALSE
  /\ mixed' = FALSE
  /\ ops' = << >>
  /\ UNCHANGED << call, v1, cmVars, oneShot, tick, cancelled, todo, wc, cluster >>

(***************************************************************************)
(* ConfigManager.Reload (part_002 68-81), called from another goroutine.   *)
(***************************************************************************)
DoReload ==
  /\ \E crd \in CrdStates :
       LET r == Reload(cm, crd) IN
         /\ cm' = r.cm
         /\ lastReload' = [crd |-> crd, err |-> r.err, before |-> cm, after |-> r.cm]
         /\ cfgStale' = (cfgStale \/ (~r.err /\ passPc \in {"getGitMap", "loop"}))
         /\ gitStale' = (gitStale \/ (~r.err /\ passPc = "loop"))
  /\ UNCHANGED << call, v1, schedVars, passPc, cfgMap, gitMap, mixed, todo, ops, wc, cluster >>

(***************************************************************************)
(* The cluster's resources change.                                         *)
(***************************************************************************)
ClusterChange ==
  /\ \E i \in ChangingItems, rev \in 0..MaxRev :
       /\ rev # cluster[i]
       /\ cluster' = [cluster EXCEPT ![i] = rev]
  /\ UNCHANGED << call, v1, cmVars, schedVars, passVars, wc >>

(***************************************************************************)
(* sync.RWMutex as cm.mu uses it: RLock blocks while a writer has          *)
(* announced itself, Lock waits for the readers that hold the lock.        *)
(***************************************************************************)
CanRLock(m) == ~m.writer

CanLock(m) == m.readers = 0

(***************************************************************************)
(* StartController and syncResources (controller.go 24-177).               *)
(***************************************************************************)
(* The process runs: log.Fatal in main (part_004 37-39) and os.Exit(0)     *)
(* (controller.go 65) end it, the watcher included.                        *)
V1Running == v1.sched \notin {"failed", "exited"}

(* The scheduler goroutine is about to end the process. *)
V1Ending == v1.sched \in {"failing", "exiting"}

(* cfg := cfgManager.GetConfig() (controller.go 31; config.go 53-57). *)
V1Start ==
  /\ v1.sched = "start"
  /\ CanRLock(v1)
  /\ v1' = [v1 EXCEPT !.sched = "newGitClient", !.startCfg = v1.cfg,
                      !.startGit = v1.cfg.git, !.startCurrent = TRUE]
  /\ UNCHANGED << call, cmVars, schedVars, passVars, wc, cluster >>

(* gitClient, err := git.NewGitClient(ctx, &cfg.Git); the ticker; with     *)
(* cfg.DryRun one syncResources at once (controller.go 49-61).             *)
V1NewGitClient ==
  /\ v1.sched = "newGitClient"
  /\ \E o \in ContextOutcomes(GitOutcomes, IF cancelled THEN 0 ELSE ContextLive(0), 0) :
       LET made(ng) ==
             /\ wc' = ng.wc
             /\ v1' = [v1 EXCEPT !.sched = IF ng.err THEN "failing"
                                           ELSE IF v1.startCfg.dryRun THEN "rlock"
                                           ELSE "waiting",
                                 !.once = ~ng.err /\ v1.startCfg.dryRun,
                                 !.client = ng.client,
                                 !.startCfg = Nil,
                                 !.cfg = IF v1.startCurrent
                                         THEN [v1.cfg EXCEPT !.git = ng.cfg]
                                         ELSE v1.cfg]
       IN /\ o.key = "ok" /\ o.add = "ok" /\ o.commit = "ok" /\ o.push = "ok"
          /\ o.listFail = {}
          /\ UnderContext(o, IF cancelled THEN 0 ELSE ContextLive(0),
                          LocalDir(v1.startCfg.git) \notin DOMAIN wc, FALSE, FALSE, 0)
          /\ made(NewGitClient(v1.startCfg.git, wc, o))
  /\ ops' = << >>
  /\ UNCHANGED << call, cmVars, schedVars, passPc, cfgMap, gitMap, cfgStale, gitStale, mixed,
                  todo, cluster >>

(* The ticker of controller.go 55-56, stopped when StartController returns. *)
V1Tick ==
  /\ v1.sched \in {"waiting", "rlock", "getConfig", "work", "exiting"} /\ ~tick
  /\ tick' = TRUE
  /\ UNCHANGED << call, v1, cmVars, oneShot, sched, cancelled, active, passVars, wc, cluster >>

(* case <-ticker.C: syncResources(...) *)
V1TickPass ==
  /\ v1.sched = "waiting" /\ tick
  /\ tick' = FALSE
  /\ v1' = [v1 EXCEPT !.sched = "rlock"]
  /\ ops' = << >>
  /\ UNCHANGED << call, cmVars, oneShot, sched, cancelled, active, passPc, cfgMap, gitMap,
                  cfgStale, gitStale, mixed, todo, wc, cluster >>

(* case <-ctx.Done(): return nil (controller.go 76-77) *)
V1Stop ==
  /\ v1.sched = "waiting" /\ cancelled
  /\ v1' = [v1 EXCEPT !.sched = "returned"]
  /\ UNCHANGED << call, cmVars, schedVars, passVars, wc, cluster >>

(* cfManager.RLock(); defer cfManager.RUnlock() *)
V1RLock ==
  /\ v1.sched = "rlock"
  /\ CanRLock(v1)
  /\ v1' = [v1 EXCEPT !.sched = "getConfig", !.readers = @ + 1]
  /\ UNCHANGED << call, cmVars, schedVars, passVars, wc, cluster >>

(* cfg := cfManager.GetConfig(): RLock, read cm.cfg, RUnlock *)
V1GetConfig ==
  /\ v1.sched = "getConfig"
  /\ CanRLock(v1)
  /\ v1' = [v1 EXCEPT !.sched = "work", !.passCfg = v1.cfg]
  /\ UNCHANGED << call, cmVars, schedVars, passVars, wc, cluster >>

AfterPassStoppingOnError(err) == IF err THEN "failed" ELSE "waiting"

(* if err := syncResources(...); err != nil { log } and the loop goes on    *)
(* (controller.go 72-76).                                                  *)
AfterPass(err) == "waiting"

(* The loop over cfg.IncludeResource, CommitAndPush, the deferred RUnlock. *)
(* The loop over cfg.IncludeResource and CommitAndPush with ctx cancelled   *)
(* from the call "at" on, then the deferred RUnlock.                       *)
V1Pass(at) ==
  \E o \in ContextOutcomes(GitOutcomes, at, Len(v1.passCfg.includeResource)) :
    LET done(sy) ==
          /\ wc' = sy.wc
          /\ ops' = Tag(<<"v", "1">>, sy.ops
                          \o << Op(IF sy.err THEN "syncFail" ELSE "synced", NoStr) >>)
          /\ v1' = [v1 EXCEPT !.sched = IF v1.once THEN "exiting" ELSE AfterPass(sy.err),
                              !.readers = @ - 1, !.passCfg = Nil]
    IN /\ o.key = "ok" /\ o.clone = "ok"
       /\ UnderContext(o, at, FALSE, TRUE,
                       v1.client.push /\ o.add = "ok" /\ o.commit = "ok",
                       Len(v1.passCfg.includeResource))
       /\ (o.add = "error" => o.commit = "ok")
       /\ (o.commit # "ok" \/ ~v1.client.push => o.push = "ok")
       /\ o.commit \in CommitResultsAfterSync(V1Tenant(v1.passCfg), v1.client, wc,
                                              cluster, o)
       /\ done(sync(V1Tenant(v1.passCfg), v1.client, wc, cluster, o))

V1Work ==
  /\ v1.sched = "work"
  /\ V1Pass(IF cancelled THEN 0 ELSE ContextLive(Len(v1.passCfg.includeResource)))
  /\ UNCHANGED << call, cmVars, schedVars, passPc, cfgMap, gitMap, cfgStale, gitStale, mixed,
                  todo, cluster >>

(* The pass during which ctx is cancelled. *)
V1WorkCancelled ==
  /\ v1.sched = "work" /\ ~cancelled
  /\ \E at \in 1..(Len(v1.passCfg.includeResource) + 1) : V1Pass(at)
  /\ cancelled' = TRUE
  /\ UNCHANGED << call, cmVars, oneShot, sched, tick, active, passPc, cfgMap, gitMap,
                  cfgStale, gitStale, mixed, todo, cluster >>

(* os.Exit(0) after the pass of the dry-run branch (controller.go 62-65);  *)
(* log.Fatal in main when StartController returned an error (part_004      *)
(* 37-39).                                                                 *)
V1Exit ==
  /\ V1Ending
  /\ v1' = [v1 EXCEPT !.sched = IF v1.sched = "failing" THEN "failed" ELSE "exited"]
  /\ UNCHANGED << call, cmVars, schedVars, passVars, wc, cluster >>

(***************************************************************************)
(* WatchConfig and Reload (config.go 41-51, 119-148).                      *)
(***************************************************************************)
(* config.json is written: fsnotify queues the event in watcher.Events     *)
(* while the watcher exists.                                               *)
V1FileWrite ==
  /\ V1Running /\ v1.watch # "returned"
  /\ ~v1.event
  /\ \E f \in V1Writes : v1' = [v1 EXCEPT !.file = f, !.event = TRUE]
  /\ UNCHANGED << call, cmVars, schedVars, passVars, wc, cluster >>

(* case event := <-watcher.Events: Reload: LoadConfig, then cm.mu.Lock()   *)
(* announces the writer.                                                   *)
V1ReloadLoad ==
  /\ V1Running
  /\ v1.watch = "idle" /\ v1.event
  /\ LET r == LoadConfig(v1.file) IN
       v1' = IF r.err THEN [v1 EXCEPT !.event = FALSE]
             ELSE [v1 EXCEPT !.event = FALSE, !.new = r.cfg, !.watch = "lock",
                             !.writer = TRUE]
  /\ UNCHANGED << call, cmVars, schedVars, passVars, wc, cluster >>

(* mu.Lock() returns; cm.cfg = newCfg; the deferred mu.Unlock() *)
V1ReloadSwap ==
  /\ V1Running
  /\ v1.watch = "lock"
  /\ CanLock(v1)
  /\ v1' = [v1 EXCEPT !.cfg = v1.new, !.new = Nil, !.watch = "idle",
                      !.writer = FALSE, !.reloaded = TRUE, !.startCurrent = FALSE]
  /\ UNCHANGED << call, cmVars, schedVars, passVars, wc, cluster >>

(* WatchConfig: case <-ctx.Done(): return nil (config.go 144-145) *)
V1WatchStop ==
  /\ V1Running
  /\ v1.watch = "idle" /\ cancelled
  /\ v1' = [v1 EXCEPT !.watch = "returned"]
  /\ UNCHANGED << call, cmVars, schedVars, passVars, wc, cluster >>

(* A tick while the scheduler waits. *)
TickWaiting == sched = "waiting" /\ Tick

(***************************************************************************)
(* Spec: the passes of the continuous mode with every outcome of the       *)
(* external calls, over a changing cluster.                                *)
(***************************************************************************)
InitContinuous == Init /\ ~oneShot

Next ==
  \/ TickWaiting
  \/ TickPass
  \/ PassGetConfigMap
  \/ PassGetGitMap
  \/ PassSyncOne
  \/ PassReturn
  \/ ClusterChange

Spec == InitContinuous /\ [][Next]_vars

(***************************************************************************)
(* SpecCatalog: the passes of the continuous mode while Reload is called   *)
(* from another goroutine.                                                 *)
(***************************************************************************)
NextCatalog ==
  \/ TickWaiting
  \/ TickPass
  \/ PassGetConfigMap
  \/ PassGetGitMap
  \/ PassSyncOneOk
  \/ PassReturn
  \/ DoReload

SpecCatalog == InitContinuous /\ [][NextCatalog]_vars

(***************************************************************************)
(* SpecSched: StartController in both modes, with ticks and cancellation   *)
(* at any moment.                                                          *)
(***************************************************************************)
NextSched ==
  \/ OneShotPass
  \/ Tick
  \/ TickPass
  \/ Cancel
  \/ Stop
  \/ PassGetConfigMap
  \/ PassGetGitMap
  \/ PassSyncOne
  \/ PassSyncOneCancelled
  \/ PassReturn

SpecSched == Init /\ [][NextSched]_vars

(***************************************************************************)
(* SpecSchedFair: SpecSched with the progress the program makes.  A pass   *)
(* in progress takes its next step: syncResources is straight-line code in *)
(* the scheduler's goroutine, and every call it makes returns.  An         *)
(* iteration of its loop is the step that takes a tenant config off todo:  *)
(* PassSyncOne, the one action that changes todo while passPc is "loop",   *)
(* enabled whenever todo is not empty.  When ctx.Done() is ready each time *)
(* the select statement is reached, its case is taken at some time: Go     *)
(* chooses among the ready cases of a select uniformly at random, so       *)
(* ticker.C cannot win every time.                                         *)
(***************************************************************************)
PassLoopAdvances ==
  /\ passPc = "loop" /\ todo # {}
  /\ todo' \in (SUBSET todo) \ {todo}

(* The guard of PassSyncOne holds for some tenant config and outcome: an   *)
(* invariant of SpecSched.                                                 *)
PassLoopCanAdvance ==
  (passPc = "loop" /\ todo # {}) =>
    \E name \in todo, o \in GitOutcomes : Asked(cfgMap[name], o)

SpecSchedFair ==
  /\ Init /\ [][NextSched]_vars
  /\ WF_vars(PassGetConfigMap) /\ WF_vars(PassGetGitMap)
  /\ WF_todo(PassLoopAdvances) /\ WF_vars(PassReturn)
  /\ SF_vars(Stop)

(***************************************************************************)
(* SpecV1: the single-configuration program, its watcher reloading         *)
(* config.json while the controller runs.                                  *)
(***************************************************************************)
InitV1 ==
  /\ InitState /\ ~oneShot /\ call = NoCall
  /\ v1 \in { V1Initial(c) : c \in V1StartConfigs }

NextV1 ==
  \/ V1Start
  \/ V1NewGitClient
  \/ V1Tick
  \/ V1TickPass
  \/ Cancel
  \/ V1Stop
  \/ V1WatchStop
  \/ V1RLock
  \/ V1GetConfig
  \/ V1Work
  \/ V1WorkCancelled
  \/ V1Exit
  \/ V1FileWrite
  \/ V1ReloadLoad
  \/ V1ReloadSwap
  \/ ClusterChange

SpecV1 == InitV1 /\ [][NextV1]_vars

(***************************************************************************)
(* SpecCalls: functions of the program applied on their own.  Init draws   *)
(* the function and its input, the action of the function applies it.      *)
(***************************************************************************)
programVars == << cm, lastReload, oneShot, sched, tick, cancelled, active, passPc,
                  cfgMap, gitMap, cfgStale, gitStale, mixed, todo, ops, wc, cluster, v1 >>

NewCall(fn, in) == [fn |-> fn, in |-> in, done |-> FALSE, out |-> << >>]

Returned(out) ==
  /\ call' = [call EXCEPT !.done = TRUE, !.out = out]
  /\ UNCHANGED programVars

(* sync of part_001 on one tenant config. *)
CallSync ==
  /\ call.fn = "sync" /\ ~call.done
  /\ Returned(sync(call.in.cfg, CallClient, CallCopy, call.in.cl, call.in.o))

(* The loop of part_000 that calls sync for every filter of a tenant config. *)
CallSync0 ==
  /\ call.fn = "sync0" /\ ~call.done
  /\ Returned(SyncTarget0(call.in.cfg, 1, CallClient, CallCopy, call.in.cl, call.in.o))

(* determineNamespaces of part_000. *)
CallDetermineNamespaces ==
  /\ call.fn = "determineNamespaces" /\ ~call.done
  /\ Returned(determineNamespaces(call.in.namespace, call.in.nsList, call.in.listed))

(* The namespace resolution of sync of part_001: one list call, in the     *)
(* namespace of lines 124-129.                                             *)
CallListNamespace ==
  /\ call.fn = "listNamespace" /\ ~call.done
  /\ Returned([err |-> FALSE, namespaces |-> << ListNamespace(call.in.namespace) >>])

(* generateFilePath of part_001, on two resources. *)
CallGenerateFilePath ==
  /\ call.fn = "generateFilePath" /\ ~call.done
  /\ Returned([a |-> generateFilePath(call.in.a.structure, call.in.a.item),
               b |-> generateFilePath(call.in.b.structure, call.in.b.item)])

(* generateFilePath of part_000, on two resources. *)
CallGenerateFilePath0 ==
  /\ call.fn = "generateFilePath0" /\ ~call.done
  /\ Returned([a |-> generateFilePath0(call.in.a.structure, call.in.a.item),
               b |-> generateFilePath0(call.in.b.structure, call.in.b.item)])

(* sync of part_001 called twice for one tenant config, the cluster and    *)
(* the outcomes of its calls the same: the second call on the directory    *)
(* the first left, with the client NewGitClient builds by opening it.  It  *)
(* is one tenant config alone, not a pass over a catalog: the passes are   *)
(* CallSyncResources and CallSyncResourcesTwice.                           *)
CallSyncTwice ==
  /\ call.fn = "syncTwice" /\ ~call.done
  /\ LET again(first) ==
           [first |-> first,
            second |-> sync(call.in.cfg, NewGitClient(Git1, first.wc, OkOutcome).client,
                            first.wc, call.in.cl, call.in.o)]
     IN Returned(again(sync(call.in.cfg, CallClient, CallCopy, call.in.cl, call.in.o)))

(* ConfigManager.Lock (config.go 19-21): cm.mu.Lock() returns when no      *)
(* reader and no writer holds the lock.                                    *)
CallLock ==
  /\ call.fn = "Lock" /\ ~call.done
  /\ CanLock(call.in) /\ ~call.in.writer
  /\ Returned([call.in EXCEPT !.writer = TRUE])

(* ConfigManager.Unlock (config.go 23-25): cm.mu.Unlock() releases the     *)
(* write lock; on a mutex that is not locked for writing it is a fatal     *)
(* error of the runtime.                                                   *)
CallUnlock ==
  /\ call.fn = "Unlock" /\ ~call.done
  /\ Returned([readers |-> call.in.readers, writer |-> FALSE, fatal |-> ~call.in.writer])

(* cm.mu: the read locks held, and whether the write lock is held. *)
CallMutexes == [readers : 0..1, writer : BOOLEAN]

InitCalls ==
  /\ InitState /\ ~oneShot /\ v1 = V1Initial(V1CfgA)
  /\ \/ call \in { NewCall("sync", [cfg |-> c, cl |-> cl, o |-> o]) :
                     c \in CallConfigs, cl \in CallClusters, o \in CallOutcomes }
     \/ call \in { NewCall("sync0", [cfg |-> c, cl |-> cl, o |-> o]) :
                     c \in CallConfigs, cl \in CallClusters, o \in CallOutcomes0 }
     \/ call \in { NewCall("syncTwice", [cfg |-> c, cl |-> cl, o |-> o]) :
                     c \in CallConfigs, cl \in CallClusters, o \in CallOutcomes }
     \/ call \in { NewCall("determineNamespaces",
                            [namespace |-> ns, nsList |-> nl, listed |-> res]) :
                     ns \in CallSelectors, nl \in CallNamespaceLists,
                     res \in { "ok", "error" } }
     \/ call \in { NewCall("listNamespace", [namespace |-> ns, nsList |-> nl]) :
                     ns \in CallSelectors, nl \in CallNamespaceLists }
     \/ call \in { NewCall("generateFilePath", [a |-> a, b |-> b]) :
                     a \in CallPathArgs, b \in CallPathArgs }
     \/ call \in { NewCall("generateFilePath0", [a |-> a, b |-> b]) :
                     a \in CallPathArgs, b \in CallPathArgs }
     \/ call \in { NewCall(fn, mu) : fn \in {"Lock", "Unlock"}, mu \in CallMutexes }

NextCalls ==
  \/ CallSync
  \/ CallSync0
  \/ CallDetermineNamespaces
  \/ CallListNamespace
  \/ CallGenerateFilePath
  \/ CallGenerateFilePath0
  \/ CallSyncTwice
  \/ CallLock
  \/ CallUnlock

SpecCalls == InitCalls /\ [][NextCalls]_vars

(***************************************************************************)
(* C1.  In continuous mode at most one synchronization pass executes at    *)
(* any moment: while a pass runs the scheduler is inside its call of       *)
(* syncResources, so no tick starts another pass before it returns.        *)
(***************************************************************************)
C1_OnePassAtATime ==
  /\ active <= 1
  /\ (passPc # "idle" => sched = "inPass")

(* A tick has arrived while a pass of the continuous mode is in its loop. *)
C1_TickDuringPass == ~oneShot /\ sched = "inPass" /\ passPc = "loop" /\ tick

(***************************************************************************)
(* C2.  A reload requested while a pass is in progress is never blocked    *)
(* for ever: whenever Reload waits in mu.Lock(), either the lock is free   *)
(* for it or the pass holding the read lock can go on to release it.       *)
(***************************************************************************)
C2_ReloadNeverDeadlocks ==
  v1.watch = "lock" =>
    \/ CanLock(v1)
    \/ v1.sched = "work"
    \/ (v1.sched = "getConfig" /\ CanRLock(v1))

(***************************************************************************)
(* C3.  A pass works on one catalog snapshot: the tenant-config map and    *)
(* the git-target map it uses are of one catalog generation, so that, as   *)
(* in every loaded catalog, each tenant config of the pass finds its git   *)
(* target in the pass's git-target map.                                    *)
(***************************************************************************)
C3_OneSnapshotPerPass ==
  passPc = "loop" =>
    /\ ~mixed
    /\ \A name \in DOMAIN cfgMap :
         MapKey(cfgMap[name].spec.gitRef, cfgMap[name].namespace) \in DOMAIN gitMap

(***************************************************************************)
(* C4.  A reload in which a tenant config references an absent git target  *)
(* is rejected as a whole: Reload returns an error and the manager's       *)
(* catalog is the one from before the call.                                *)
(***************************************************************************)
C4_MissingGitRefRejectsReload ==
  HasMissingGitRef(lastReload.crd) =>
    /\ lastReload.err
    /\ lastReload.after = lastReload.before
    /\ GetConfigMap(lastReload.after) = GetConfigMap(lastReload.before)
    /\ GetGitMap(lastReload.after) = GetGitMap(lastReload.before)

(* Reload has been called on a cluster with a dangling gitRef. *)
C4_ReloadWithMissingGitRef ==
  /\ HasMissingGitRef(lastReload.crd)
  /\ lastReload.err
  /\ Len(lastReload.before.cfg) > 0

(***************************************************************************)
(* C5.  In a pass, a tenant config whose git target is not in the          *)
(* git-target map is skipped, nothing being cloned, written, committed or  *)
(* pushed for it, and the pass goes on: a tenant config leaves the pass's  *)
(* work only by having been visited.                                       *)
(***************************************************************************)
C5_MissingGitTargetSkipsOnlyThatTenant ==
  passPc = "loop" =>
    \A name \in DOMAIN cfgMap :
      /\ (name \in todo) = (\A k \in 1..Len(ops) : ops[k].cfg # name)
      /\ (/\ name \notin todo
          /\ MapKey(cfgMap[name].spec.gitRef, cfgMap[name].namespace) \notin DOMAIN gitMap
          => \A k \in 1..Len(ops) : ops[k].cfg = name => ops[k].op = "gitNotFound")

(* A pass has ended in which a tenant config was skipped for its missing   *)
(* git target and a tenant config visited after it was synchronized.       *)
C5_SkippedThenSynced ==
  /\ passPc = "loop" /\ todo = {}
  /\ \E k \in 1..Len(ops) : \E j \in (k + 1)..Len(ops) :
       ops[k].op = "gitNotFound" /\ ops[j].op = "synced" /\ ops[j].cfg # ops[k].cfg

(***************************************************************************)
(* C6.  A pass that starts after a successful Reload uses the new          *)
(* configuration in full: the git client it commits and pushes with is     *)
(* the one of the git target of the configuration the pass read (branch,   *)
(* credentials, local path, dry-run flag).                                 *)
(***************************************************************************)
C6_PassUsesReloadedGitTarget ==
  v1.sched = "work" =>
    /\ v1.client.branch = v1.passCfg.git.branch
    /\ v1.client.auth = newHttpAuth(v1.passCfg.git)
    /\ v1.client.dir = LocalDir(v1.passCfg.git)
    /\ v1.client.push = ~v1.passCfg.git.dryRun

(***************************************************************************)
(* C7.  For a git target with dryRun = true push is never invoked, over    *)
(* any number of passes, and nothing reaches its remote; for a target      *)
(* with dryRun = false every successful commit is followed by a push.      *)
(***************************************************************************)
C7_DryRunNeverPushes ==
  /\ \A k \in 1..Len(ops) :
       /\ (ops[k].op = "push" => ~v1.startGit.dryRun)
       /\ (ops[k].op = "commit" /\ ops[k].arg = "ok" /\ ~v1.startGit.dryRun
             => k < Len(ops) /\ ops[k + 1].op = "push")
  /\ (v1.startGit.dryRun => \A d \in DOMAIN wc : wc[d].pushed = EmptyTree)

(* A pass on a dry-run target has committed the files it wrote. *)
C7_DryRunCommitted ==
  /\ v1.startGit.dryRun
  /\ \E k \in 1..Len(ops) : ops[k].op = "commit" /\ ops[k].arg = "ok"
  /\ \E d \in DOMAIN wc : wc[d].head # EmptyTree

(***************************************************************************)
(* C8.  When push reports that the remote is already up to date,           *)
(* CommitAndPush returns success; every other push error fails the         *)
(* target's cycle.                                                         *)
(***************************************************************************)
C8_AlreadyUpToDateIsSuccess ==
  \A k \in 1..Len(ops) :
    ops[k].op = "push" =>
      /\ k < Len(ops)
      /\ ops[k + 1].op = IF ops[k].arg \in {"ok", "NoErrAlreadyUpToDate"}
                         THEN "synced" ELSE "syncFail"

(* A push has reported NoErrAlreadyUpToDate. *)
C8_PushedAlreadyUpToDate ==
  \E k \in 1..Len(ops) : ops[k].op = "push" /\ ops[k].arg = "NoErrAlreadyUpToDate"

(***************************************************************************)
(* C9.  A commit attempted when the working tree has no change since the   *)
(* previous commit does not fail the target's cycle.                       *)
(***************************************************************************)
C9_NothingChangedSucceeds ==
  \A k \in 1..Len(ops) :
    ops[k].op = "commit" /\ ops[k].arg = "ErrEmptyCommit" =>
      k < Len(ops) /\ ops[k + 1].op # "syncFail"

(***************************************************************************)
(* C10.  A failure to create the client of, commit or push one git target  *)
(* ends only that target's work in the pass: every tenant config of the    *)
(* pass is visited, and each one that is synchronized was listed, what    *)
(* was written for it committed and, unless dry-run, pushed.               *)
(***************************************************************************)
C10_FailureEndsOnlyThatTarget ==
  passPc = "loop" =>
    \A name \in DOMAIN cfgMap :
      /\ (name \notin todo) =
           (\E k \in 1..Len(ops) :
              /\ ops[k].cfg = name
              /\ ops[k].op \in {"gitNotFound", "clientFail", "syncFail", "synced"})
      /\ \A k \in 1..Len(ops) :
           ops[k].cfg = name /\ ops[k].op = "synced" =>
             /\ \E j \in 1..k : ops[j].cfg = name /\ ops[j].op = "list"
             /\ LET copy == wc[LocalDir(gitMap[ops[k].arg])]
                IN copy.head = copy.files
             /\ \E j \in 1..k :
                  ops[j].cfg = name /\ ops[j].op = "commit" /\ ops[j].arg = "ok"
             /\ (\E j \in 1..k : ops[j].cfg = name /\ ops[j].op = "push")
                  = ~gitMap[ops[k].arg].dryRun

(* A pass has ended in which one target failed and a tenant config visited *)
(* after it was synchronized.                                              *)
C10_FailedThenSynced ==
  /\ passPc = "loop" /\ todo = {}
  /\ \E k \in 1..Len(ops) : \E j \in (k + 1)..Len(ops) :
       /\ ops[k].op \in {"clientFail", "syncFail"}
       /\ ops[j].op = "synced"
       /\ ops[j].cfg # ops[k].cfg
       /\ \E i \in (k + 1)..j : ops[i].op = "write" /\ ops[i].cfg = ops[j].cfg

(***************************************************************************)
(* C11.  Within one target a failure skips only its own unit: a filter     *)
(* that discovery cannot map (or that is rejected), a list call that       *)
(* fails, a record that cannot be serialized.  Every record of the cluster *)
(* that no failure covers is written, and the commit of the target is      *)
(* still attempted: once by sync of part_001, once for every filter by     *)
(* sync of part_000 (whose namespaces resolve).                            *)
(***************************************************************************)
C11_FailureSkipsOnlyItsUnit ==
  LET cfg == call.in.cfg
      o == call.in.o
      filters == cfg.spec.includeResource
      files == call.out.wc[CallClient.dir].files
      inScope(n) == cfg.namespace \in { NoStr, AllSelector, Items[n].namespace }
      serializable(n) == ItemKey(ObjectOf(n, 1)) \notin o.marshalFail
      sound(i) == /\ filters[i].name # Star /\ filters[i].apiVersion # Star
                  /\ <<filters[i].apiVersion, filters[i].name>> \in Discovery
                  /\ i \notin o.listFail
      sound0(i, n) ==
        /\ <<filters[i].apiVersion, filters[i].name>> \in Discovery
        /\ << filters[i].name,
              IF cfg.namespace = NoStr THEN NoStr ELSE Items[n].namespace >> \notin o.listFail
      expected ==
        { generateFilePath(cfg.spec.folderStructure, ObjectOf(n, 1)) :
            n \in { m \in 1..Len(Items) :
                      /\ call.in.cl[m] > 0 /\ inScope(m) /\ serializable(m)
                      /\ \E i \in 1..Len(filters) :
                           sound(i) /\ filters[i].name = Items[m].kind } }
      expected0 ==
        { generateFilePath0(cfg.spec.folderStructure, ObjectOf(n, 1)) :
            n \in { m \in 1..Len(Items) :
                      /\ call.in.cl[m] > 0 /\ inScope(m) /\ serializable(m)
                      /\ \E i \in 1..Len(filters) :
                           sound0(i, m) /\ filters[i].name = Items[m].kind } }
      commits == { k \in 1..Len(call.out.ops) : call.out.ops[k].op = "add" }
  IN /\ (call.fn = "sync" /\ call.done) =>
          DOMAIN files = expected /\ Cardinality(commits) = 1
     /\ (call.fn = "sync0" /\ call.done
           /\ ~(cfg.namespace \in { Star, AllSelector } /\ o.nsList = "error")) =>
          DOMAIN files = expected0 /\ Cardinality(commits) = Len(filters)

(* One sync in which discovery fails for a filter and a record cannot be   *)
(* serialized, and which still writes another record and stages a commit.  *)
C11_FailuresSkippedRestWritten ==
  /\ call.fn = "sync" /\ call.done
  /\ \E k \in 1..Len(call.out.ops) : call.out.ops[k].op = "mappingFail"
  /\ \E k \in 1..Len(call.out.ops) : call.out.ops[k].op = "marshalFail"
  /\ \E k \in 1..Len(call.out.ops) : call.out.ops[k].op = "write"
  /\ \E k \in 1..Len(call.out.ops) : call.out.ops[k].op = "add"

(***************************************************************************)
(* C12.  A pass whose push fails leaves the files it wrote and the commit  *)
(* it created in the working copy, and the origin as it was; a pass whose  *)
(* push succeeds delivers the head, everything committed by earlier passes *)
(* included.                                                               *)
(***************************************************************************)
C12_PushFailureKeepsLocalWork ==
  [][ (v1.sched = "work" /\ v1'.sched # "work") =>
        LET d == v1.client.dir
            pushed(res) == \E k \in 1..Len(ops') : ops'[k].op = "push" /\ ops'[k].arg = res
            written == { ops'[k].arg : k \in { j \in 1..Len(ops') : ops'[j].op = "write" } }
        IN /\ pushed("error") =>
                /\ wc'[d].pushed = wc[d].pushed
                /\ wc'[d].head = wc'[d].files
                /\ written \subseteq DOMAIN wc'[d].files
                /\ DOMAIN wc[d].files \subseteq DOMAIN wc'[d].files
           /\ pushed("ok") =>
                /\ wc'[d].pushed = wc'[d].head
                /\ DOMAIN wc[d].head \subseteq DOMAIN wc'[d].pushed ]_vars

(* A pass wrote a file and committed it, the push failed: the head is      *)
(* ahead of the origin.                                                    *)
C12_CommittedButNotPushed ==
  /\ \E k \in 1..Len(ops) : ops[k].op = "push" /\ ops[k].arg = "error"
  /\ \E k \in 1..Len(ops) : ops[k].op = "write"
  /\ wc[v1.client.dir].head = wc[v1.client.dir].files
  /\ wc[v1.client.dir].head # wc[v1.client.dir].pushed

(***************************************************************************)
(* C13.  In one-shot mode exactly one full pass runs and the program       *)
(* returns when it ends, whatever its targets did: a pass starts only      *)
(* before any other has, its return (every tenant config visited) ends     *)
(* StartController, and nothing starts afterwards.                         *)
(***************************************************************************)
C13_OneShotRunsOnePass ==
  [][ oneShot =>
        /\ (active' > active) => (sched = "waiting" /\ active = 0 /\ sched' = "inPass")
        /\ (sched' = "waiting") => (sched = "waiting")
        /\ (active' < active) =>
             (sched = "inPass" /\ passPc = "loop" /\ todo = {} /\ sched' = "returned")
        /\ (sched' = "returned" /\ sched # "returned") => (active' < active)
        /\ (sched = "returned") => (sched' = "returned" /\ active' = 0 /\ wc' = wc) ]_vars

(* The one-shot program has returned after a pass that cloned a target. *)
C13_OneShotReturned ==
  oneShot /\ sched = "returned" /\ active = 0 /\ DOMAIN wc # {}

(***************************************************************************)
(* C14.  In continuous mode a pass starts only by receiving a tick: none   *)
(* starts while ticker.C is empty, so none before the first tick, and each *)
(* start takes one delivered tick out of ticker.C, so the passes started   *)
(* never outnumber the ticks delivered.                                    *)
(***************************************************************************)
C14_EveryPassStartedByATick ==
  [][ (~oneShot /\ active' > active) =>
        (tick /\ ~tick' /\ sched = "waiting" /\ active' = active + 1) ]_vars

(* A pass of the continuous mode is in its loop, its tick consumed. *)
C14_PassStartedByTick ==
  ~oneShot /\ sched = "inPass" /\ passPc = "loop" /\ ~tick

(***************************************************************************)
(* C15.  Continuous mode: an error returned by a pass does not stop the    *)
(* scheduler.  The step in which a pass of the loop returns its error      *)
(* leaves the loop waiting on ticker.C, and a loop that waits starts a     *)
(* pass on the next tick.                                                  *)
(***************************************************************************)
C15_FailedPassKeepsScheduling ==
  /\ [][ (v1.sched = "work" /\ ~v1.once /\ v1'.sched # "work"
           /\ ops'[Len(ops')].op = "syncFail") => v1'.sched = "waiting" ]_vars
  /\ [](v1.sched = "waiting" /\ tick => ENABLED V1TickPass)

(* The pass failed at its commit, and the next tick is already buffered. *)
C15_FailedPassThenTick ==
  /\ Len(ops) > 0 /\ ops[Len(ops)].op = "syncFail"
  /\ v1.sched = "waiting" /\ tick

(***************************************************************************)
(* C16.  A filter whose name is empty or "*", or whose apiVersion is "*",  *)
(* is rejected before discovery is asked to map it and before any list     *)
(* call is made for it, and the other filters of the target are still      *)
(* processed (when the target's namespaces resolve): stated of sync of     *)
(* part_001 and of the loop around sync of part_000.                       *)
(***************************************************************************)
C16_WildcardRejectedBeforeDiscovery ==
  (call.fn \in { "sync", "sync0" } /\ call.done) =>
    LET filters == call.in.cfg.spec.includeResource
        out == call.out.ops
        wild(i) == \/ filters[i].name = Star \/ filters[i].name = NoStr
                   \/ filters[i].apiVersion = Star
        mapOp(i) == Op("mapping", << filters[i].apiVersion, filters[i].name >>)
        resolved == ~\E k \in 1..Len(out) : out[k].op = "namespacesFail"
    IN /\ \A i \in 1..Len(filters) :
            wild(i) => \A k \in 1..Len(out) : out[k] # mapOp(i)
       /\ (\A i \in 1..Len(filters) : wild(i)) =>
            \A k \in 1..Len(out) : out[k].op \notin { "list", "listFail" }
       /\ \A i \in 1..Len(filters) :
            (~wild(i) /\ resolved) => \E k \in 1..Len(out) : out[k] = mapOp(i)

(***************************************************************************)
(* C17.  Namespace resolution: the selectors "*" and "all" yield exactly   *)
(* the names of the namespaces the cluster reports, the empty selector the *)
(* one-element sequence of the empty string, any other selector the        *)
(* one-element sequence of itself: stated of determineNamespaces of        *)
(* part_000 and of the resolution in sync of part_001.                     *)
(***************************************************************************)
C17_NamespaceResolution ==
  (call.fn \in { "determineNamespaces", "listNamespace" } /\ call.done /\ ~call.out.err) =>
    call.out.namespaces =
      IF call.in.namespace \in { Star, AllSelector } THEN call.in.nsList
      ELSE << call.in.namespace >>

(***************************************************************************)
(* C18.  The path of a resource is a function of (namespace, kind, name)   *)
(* only, and is injective: equal triples give equal paths whatever else    *)
(* differs, and distinct triples give distinct paths, a cluster-scoped     *)
(* resource and one of a namespace named like the placeholder included.    *)
(***************************************************************************)
C18_PathInjective ==
  (call.fn \in { "generateFilePath", "generateFilePath0" } /\ call.done) =>
    LET triple(x) == << x.item["metadata"].namespace, x.item["kind"],
                        x.item["metadata"].name >>
    IN (triple(call.in.a) = triple(call.in.b)) <=> (call.out.a = call.out.b)

(***************************************************************************)
(* C19.  A record processed under filters with withStatusField = false is  *)
(* serialized without a status key, whether the record came with a status  *)
(* or without one: no file that sync wrote for a kind whose filters all    *)
(* leave the status out holds the key.                                     *)
(***************************************************************************)
C19_StatusStripped ==
  (call.fn = "sync" /\ call.done) =>
    LET filters == call.in.cfg.spec.includeResource
        files == call.out.wc[CallClient.dir].files
        stripped(kind) == \A i \in 1..Len(filters) :
                            filters[i].name = kind => ~filters[i].withStatusField
    IN \A path \in DOMAIN files :
         stripped(files[path].object["kind"]) => "status" \notin DOMAIN files[path].object

(* sync wrote, under a filter that leaves the status out, a Pod that the   *)
(* cluster returned with a status, and a ConfigMap that has none.          *)
C19_PodWrittenWithoutStatus ==
  /\ call.fn = "sync" /\ call.done
  /\ \A i \in 1..Len(call.in.cfg.spec.includeResource) :
       ~call.in.cfg.spec.includeResource[i].withStatusField
  /\ \E path \in DOMAIN call.out.wc[CallClient.dir].files :
       /\ call.out.wc[CallClient.dir].files[path].object["kind"] = PodKind
       /\ "status" \notin DOMAIN call.out.wc[CallClient.dir].files[path].object
  /\ \E path \in DOMAIN call.out.wc[CallClient.dir].files :
       call.out.wc[CallClient.dir].files[path].object["kind"] = ConfigMapKind

(***************************************************************************)
(* A whole pass as one function: syncResources of part_001 76-99 ranges    *)
(* over the map GetConfigMap returns, in the order Go's map iteration      *)
(* gives, and handles one tenant config after the other.  order is that    *)
(* order, os[k] the outcomes of the calls the k-th tenant config makes.    *)
(***************************************************************************)
(* The calls of two logs taken in turn. *)
RECURSIVE InTurn(_, _)
InTurn(a, b) ==
  IF a = << >> THEN b
  ELSE IF b = << >> THEN a
  ELSE << Head(a), Head(b) >> \o InTurn(Tail(a), Tail(b))

(* The loop of syncResources starting a tenant config while the one before *)
(* is still at work.                                                       *)
RECURSIVE SyncEachAtOnce(_, _, _, _, _, _, _)
SyncEachAtOnce(cMap, order, k, gMap, w, cl, os) ==
  IF k > Len(order) THEN [wc |-> w, gitMap |-> gMap, ops |-> << >>]
  ELSE LET joined(this, rest) ==
             [wc |-> rest.wc, gitMap |-> rest.gitMap, ops |-> InTurn(this.ops, rest.ops)]
           after(this) ==
             joined(this, SyncEachAtOnce(cMap, order, k + 1, this.gitMap, this.wc, cl, os))
       IN after(SyncOne(cMap[order[k]], gMap, w, cl, os[k]))

RECURSIVE SyncEach(_, _, _, _, _, _, _)
SyncEach(cMap, order, k, gMap, w, cl, os) ==
  IF k > Len(order) THEN [wc |-> w, gitMap |-> gMap, ops |-> << >>]
  ELSE LET joined(this, rest) ==
             [wc |-> rest.wc, gitMap |-> rest.gitMap, ops |-> this.ops \o rest.ops]
           after(this) ==
             joined(this, SyncEach(cMap, order, k + 1, this.gitMap, this.wc, cl, os))
       IN after(SyncOne(cMap[order[k]], gMap, w, cl, os[k]))

syncResources(m, order, w, cl, os) ==
  SyncEach(GetConfigMap(m), order, 1, GetGitMap(m), w, cl, os)

(* The orders a range over a map can take: every arrangement of its keys. *)
RangeOrders(map) ==
  { s \in [1..Cardinality(DOMAIN map) -> DOMAIN map] :
      \A i, j \in DOMAIN s : i # j => s[i] # s[j] }

(* A tenant config of the ConfigMap filter on the git target of Cfg1. *)
Cfg3 == Config(<<"c", "3">>, NsA,
               ConfigSpec(NsA, << FilterConfigMap >>, "yaml", NameG1, KubeConfigPath,
                          <<"f">>))

(* A tenant config of the Pods of the namespace a, as Cfg1, on the git     *)
(* target of Cfg1 and in json.                                             *)
Cfg4 == Config(<<"c", "4">>, NsA, SpecFor(NameG1, "json"))

(* A tenant config named as Cfg1 in the namespace b, and its git target. *)
Cfg1B == Config(<<"c", "1">>, NsB,
                ConfigSpec(NsB, << FilterPod >>, "yaml", NameG1, KubeConfigPath, <<"f">>))

Git1B == GitConfig(NameG1, NsB, "https", HostPort2, <<"m">>, <<"u">>, <<"p">>,
                   NoStr, <<"/", "t">>, <<"3">>, TRUE)

(* An ssh target whose URL names a user; it passes the loader's validation. *)
Git1SshUser ==
  [Git1Ssh EXCEPT !.repositoryURL = <<"s", "s", "h", ":", "/", "/", "b", "@", "h", "/", "1">>]

(* The git target g2 of another URL in the directory of Git1. *)
Git2InDirOfGit1 == [Git2 EXCEPT !.repositoryPath = Git1.repositoryPath,
                                !.repositoryFolder = Git1.repositoryFolder]

(* The catalogs of the passes of SpecPasses: two git targets, one git      *)
(* target shared by tenant configs of two kinds, one git target shared by  *)
(* tenant configs of one kind, one name in two namespaces, an ssh target,  *)
(* two git targets of one directory.                                       *)
PassCrds ==
  { [configs |-> << Cfg1, Cfg2 >>, gitConfigs |-> << Git1, Git2 >>],
    [configs |-> << Cfg1, Cfg3 >>, gitConfigs |-> << Git1 >>],
    [configs |-> << Cfg1, Cfg4 >>, gitConfigs |-> << Git1 >>],
    [configs |-> << Cfg1, Cfg1B >>, gitConfigs |-> << Git1, Git1B >>],
    [configs |-> << Cfg1 >>, gitConfigs |-> << Git1SshUser >>],
    [configs |-> << Cfg1, Cfg2 >>, gitConfigs |-> << Git1, Git2InDirOfGit1 >>] }

PassManagers ==
  { NewConfigManager(LoadConfigStore(crd).pairs) :
      crd \in { c \in PassCrds : ~LoadConfigStore(c).err } }

(* The host before the pass: nothing cloned, or the git target of Git1.    *)
PassCopies == { << >>, CallCopy }

(* The outcomes of the calls of one tenant config of a pass. *)
PassOutcomes ==
  { OkOutcome, [OkOutcome EXCEPT !.clone = "error"], [OkOutcome EXCEPT !.add = "error"],
    [OkOutcome EXCEPT !.commit = "error"], [OkOutcome EXCEPT !.listFail = {1}] }

(***************************************************************************)
(* NewGitClient called on its own, on the git targets of the catalogs and  *)
(* on an ssh target whose URL names a user.                                *)
(***************************************************************************)
CallGitTargets == { Git1, Git2, Git1B, Git1Ssh, Git1SshUser }

CallNewGitClient ==
  /\ call.fn = "newGitClient" /\ ~call.done
  /\ Returned(NewGitClient(call.in.cfg, call.in.w, call.in.o))

(* CommitAndPush called on its own: the client of a dry-run git target    *)
(* and the client of the pushing git target of the single configuration,   *)
(* on the clone and on the clone with one file written.                    *)
CallPushClients ==
  { NewGitClient(c, << >>, OkOutcome).client : c \in { Git1, V1GitB } }

CallPushCopies ==
  { CallCopy, SaveResource(CallClient, CallCopy, <<"x">>, <<"d">>, OkOutcome).wc }

CallCommitAndPush ==
  /\ call.fn = "commitAndPush" /\ ~call.done
  /\ Returned(CommitAndPush(call.in.g, call.in.w, call.in.o))

(* syncResources of part_001 on one catalog. *)
CallSyncResources ==
  /\ call.fn = "syncResources" /\ ~call.done
  /\ Returned(syncResources(call.in.m, call.in.order, call.in.w, call.in.cl, call.in.os))

(* Two consecutive passes of syncResources of part_001 on one catalog, the  *)
(* cluster and the outcomes of the calls the same: the second pass on the  *)
(* host and on the catalog the first left, each pass ranging over          *)
(* cfgMap in an order of its own.                                          *)
CallSyncResourcesTwice ==
  /\ call.fn = "syncResourcesTwice" /\ ~call.done
  /\ LET again(first) ==
           [first |-> first,
            second |-> syncResources(WriteThrough(call.in.m, first.gitMap),
                                     call.in.order2, first.wc, call.in.cl, call.in.os)]
     IN Returned(again(syncResources(call.in.m, call.in.order, call.in.w, call.in.cl,
                                     call.in.os)))

InitPasses ==
  /\ InitState /\ ~oneShot /\ v1 = V1Initial(V1CfgA)
  /\ \/ \E m \in PassManagers :
          call \in { NewCall("syncResourcesTwice",
                             [m |-> m, order |-> order, order2 |-> order2, w |-> w,
                              cl |-> cl, os |-> os]) :
                       order \in RangeOrders(GetConfigMap(m)),
                       order2 \in RangeOrders(GetConfigMap(m)), w \in PassCopies,
                       cl \in CallClusters, os \in [1..2 -> PassOutcomes] }
     \/ \E m \in PassManagers :
          call \in { NewCall("syncResources",
                             [m |-> m, order |-> order, w |-> w, cl |-> cl, os |-> os]) :
                       order \in RangeOrders(GetConfigMap(m)), w \in PassCopies,
                       cl \in CallClusters, os \in [1..2 -> PassOutcomes] }
     \/ call \in { NewCall("newGitClient", [cfg |-> g, w |-> w, o |-> o]) :
                     g \in CallGitTargets, w \in PassCopies, o \in GitOutcomes }
     \/ call \in { NewCall("commitAndPush", [g |-> g, w |-> w, o |-> o]) :
                     g \in CallPushClients, w \in CallPushCopies, o \in GitOutcomes }

NextPasses ==
  \/ CallSyncResources
  \/ CallSyncResourcesTwice
  \/ CallNewGitClient
  \/ CallCommitAndPush

SpecPasses == InitPasses /\ [][NextPasses]_vars

(***************************************************************************)
(* C21.  Two tenant configs of one git target write into one working copy  *)
(* in a pass: a file one of them wrote, at a path the other did not write, *)
(* is in the working copy when the pass ends, with the bytes that tenant   *)
(* config writes there (alone: the tenant config synchronized by itself,   *)
(* the working copy at hand).                                              *)
(***************************************************************************)
PassDir(m, name) ==
  LocalDir(GetGitMap(m)[MapKey(GetConfigMap(m)[name].spec.gitRef,
                               GetConfigMap(m)[name].namespace)])

WrittenBy(log, name) ==
  { log[k].arg : k \in { x \in 1..Len(log) : log[x].cfg = name /\ log[x].op = "write" } }

C21_SharedCopyKeepsBothFiles ==
  (call.fn = "syncResources" /\ call.done) =>
    \A i, j \in 1..Len(call.in.order) :
      LET a == call.in.order[i]
          b == call.in.order[j]
          dir == PassDir(call.in.m, a)
          alone == SyncOne(GetConfigMap(call.in.m)[a], GetGitMap(call.in.m),
                           call.in.w, call.in.cl, [call.in.os[i] EXCEPT !.clone = "ok"])
      IN (i # j /\ PassDir(call.in.m, b) = dir) =>
           \A p \in WrittenBy(call.out.ops, a) \ WrittenBy(call.out.ops, b) :
             /\ dir \in DOMAIN call.out.wc
             /\ p \in DOMAIN call.out.wc[dir].files
             /\ call.out.wc[dir].files[p] = alone.wc[dir].files[p]

(* Both tenant configs of a shared git target wrote, at different paths. *)
C21_BothWroteOneCopy ==
  /\ call.fn = "syncResources" /\ call.done
  /\ \E i, j \in 1..Len(call.in.order) :
       /\ i < j
       /\ PassDir(call.in.m, call.in.order[i]) = PassDir(call.in.m, call.in.order[j])
       /\ WrittenBy(call.out.ops, call.in.order[i]) # {}
       /\ WrittenBy(call.out.ops, call.in.order[j]) # {}
       /\ WrittenBy(call.out.ops, call.in.order[i])
            \cap WrittenBy(call.out.ops, call.in.order[j]) = {}
       /\ (WrittenBy(call.out.ops, call.in.order[i])
             \cup WrittenBy(call.out.ops, call.in.order[j]))
            \subseteq DOMAIN call.out.wc[PassDir(call.in.m, call.in.order[i])].files


(***************************************************************************)
(* C20.  Two consecutive passes over one catalog, with the cluster, the    *)
(* catalog and the stripping flags unchanged and no call failing: every    *)
(* file of every working copy has after the second pass the bytes it had   *)
(* after the first, and every tree the second pass stages is the tree its  *)
(* working copy has committed: the second pass has no diff to commit.      *)
(***************************************************************************)
C20_SecondPassChangesNothing ==
  ( /\ call.fn = "syncResourcesTwice" /\ call.done
    /\ \A k \in DOMAIN call.in.os : call.in.os[k] = OkOutcome )
  => LET first == call.out.first
         second == call.out.second
     IN /\ DOMAIN second.wc = DOMAIN first.wc
        /\ \A d \in DOMAIN first.wc : second.wc[d].files = first.wc[d].files
        /\ \A k \in 1..Len(second.ops) :
             second.ops[k].op = "add" => second.ops[k].arg = "clean"

(* Two passes over two tenant configs that write different paths: both     *)
(* wrote in both passes, and the second pass staged clean trees only and   *)
(* left the files of the first.                                            *)
C20_RewrittenUnchanged ==
  /\ call.fn = "syncResourcesTwice" /\ call.done
  /\ \A k \in DOMAIN call.in.os : call.in.os[k] = OkOutcome
  /\ \A i \in 1..Len(call.in.order) :
       /\ WrittenBy(call.out.first.ops, call.in.order[i]) # {}
       /\ WrittenBy(call.out.second.ops, call.in.order[i]) # {}
  /\ \A k \in 1..Len(call.out.second.ops) :
       call.out.second.ops[k].op = "add" => call.out.second.ops[k].arg = "clean"
  /\ \E k \in 1..Len(call.out.second.ops) : call.out.second.ops[k].op = "add"
  /\ \A d \in DOMAIN call.out.first.wc :
       call.out.second.wc[d].files = call.out.first.wc[d].files

(***************************************************************************)
(* C22.  For an ssh git target whose repositoryURL is user@host:path and   *)
(* that names no username, the authentication method of the target carries *)
(* the user part of the URL as its username: a Reload that read such a     *)
(* target, valid in its other fields, has it in the catalog, and the       *)
(* client NewGitClient builds for it authenticates as that user.           *)
(***************************************************************************)
ScpTargetWithoutUsername(g) ==
  /\ g.protocol = "ssh" /\ g.username = NoStr
  /\ Contains(g.repositoryURL, "@")
  /\ BeforeAt(g.repositoryURL) # NoStr
  /\ ~Contains(BeforeAt(g.repositoryURL), ":") /\ ~Contains(BeforeAt(g.repositoryURL), "/")
  /\ Contains(After(g.repositoryURL, "@"), ":")

(* crd with the URL and the username of its user@host:path targets         *)
(* replaced by those of Git1Ssh: nothing else can make the loader refuse   *)
(* crd.                                                                    *)
ScpTargetsOtherwiseValid(crd) ==
  LET asUrl(g) == IF ScpTargetWithoutUsername(g)
                  THEN [g EXCEPT !.repositoryURL = Git1Ssh.repositoryURL,
                                 !.username = Git1Ssh.username]
                  ELSE g
      replaced == [crd EXCEPT !.gitConfigs =
                     [i \in 1..Len(crd.gitConfigs) |-> asUrl(crd.gitConfigs[i])]]
  IN ~LoadConfigStore(replaced).err

C22_SshAuthUserFromUrl ==
  \A i \in 1..Len(lastReload.crd.gitConfigs) :
    LET g == lastReload.crd.gitConfigs[i]
        key == MapKey(g.name, g.namespace)
        client(loaded) ==
          /\ key \in DOMAIN loaded
          /\ NewGitClient(loaded[key], << >>, OkOutcome).client.auth.username
               = BeforeAt(g.repositoryURL)
    IN (ScpTargetWithoutUsername(g) /\ ScpTargetsOtherwiseValid(lastReload.crd)) =>
         /\ ~lastReload.err
         /\ client(GetGitMap(lastReload.after))

(* Reload read the target git@h:1 of no username, valid in its other       *)
(* fields, and returned an error: the catalog is the one before, and it    *)
(* holds no target of that form.                                           *)
C22_ScpTargetRejected ==
  /\ lastReload.crd.gitConfigs = << GitScpGit >>
  /\ ScpTargetWithoutUsername(GitScpGit)
  /\ ScpTargetsOtherwiseValid(lastReload.crd)
  /\ lastReload.err
  /\ cm = lastReload.before
  /\ \A k \in DOMAIN GetGitMap(cm) : ~ScpTargetWithoutUsername(GetGitMap(cm)[k])

(***************************************************************************)
(* C23.  In a pass the calls on one git target are ordered: a file is      *)
(* written only after the target was cloned or opened, stage-all and the   *)
(* commit come after the last write of the target, the commit is attempted *)
(* only after stage-all succeeded, and the push only right after the       *)
(* commit of the same CommitAndPush succeeded; a dry-run client does not   *)
(* push.                                                                   *)
(***************************************************************************)
OpsOf(log, name) == SelectSeq(log, LAMBDA x : x.cfg = name)

WritesThenCommitThenPush(log) ==
  \A k \in 1..Len(log) :
    /\ log[k].op \in {"write", "writeFail"} =>
         \A j \in 1..(k - 1) : log[j].op \notin {"add", "commit", "push"}
    /\ log[k].op = "commit" =>
         k > 1 /\ log[k - 1].op = "add" /\ log[k - 1].arg # "error"
    /\ log[k].op = "push" =>
         k > 1 /\ log[k - 1].op = "commit" /\ log[k - 1].arg = "ok"

MaterializedFirst(log) ==
  \A k \in 1..Len(log) :
    log[k].op \in {"write", "writeFail", "add", "commit", "push"} =>
      \E j \in 1..(k - 1) : log[j].op \in {"clone", "open"}

C23_TargetLifecycle ==
  /\ (call.fn = "syncResources" /\ call.done) =>
       \A i \in 1..Len(call.in.order) :
         /\ MaterializedFirst(OpsOf(call.out.ops, call.in.order[i]))
         /\ WritesThenCommitThenPush(OpsOf(call.out.ops, call.in.order[i]))
  /\ (call.fn = "commitAndPush" /\ call.done) =>
       /\ WritesThenCommitThenPush(call.out.ops)
       /\ (~call.in.g.push => \A k \in 1..Len(call.out.ops) : call.out.ops[k].op # "push")

(* A tenant config of a pass cloned its target, wrote a file, staged and   *)
(* committed; the dry-run client did not push.                             *)
C23_ClonedWrittenCommitted ==
  /\ call.fn = "syncResources" /\ call.done
  /\ \E i \in 1..Len(call.in.order) :
       LET log == OpsOf(call.out.ops, call.in.order[i]) IN
         \E a, b, c, d \in 1..Len(log) :
           /\ a < b /\ b < c /\ d = c + 1
           /\ log[a].op = "clone" /\ log[b].op = "write"
           /\ log[c].op = "add" /\ log[d].op = "commit"
           /\ \A k \in 1..Len(log) : log[k].op # "push"

(***************************************************************************)
(* C24.  Within a pass the tenant configs are handled one after another:   *)
(* every call made for one of them (clone or open, list, write, stage-all, *)
(* commit, push, or the failure that ended it) comes before the first call *)
(* made for the next.                                                      *)
(***************************************************************************)
C24_OneTargetAfterAnother ==
  (call.fn = "syncResources" /\ call.done) =>
    \A i, j \in 1..Len(call.in.order) :
      i < j =>
        \A x, y \in 1..Len(call.out.ops) :
          (call.out.ops[x].cfg = call.in.order[i] /\ call.out.ops[y].cfg = call.in.order[j])
            => x < y

(* Two tenant configs of a pass both cloned, wrote and committed. *)
C24_TwoTargetsWorked ==
  /\ call.fn = "syncResources" /\ call.done
  /\ Len(call.in.order) = 2
  /\ \A i \in 1..2 :
       /\ \E k \in 1..Len(call.out.ops) :
            call.out.ops[k].cfg = call.in.order[i] /\ call.out.ops[k].op = "clone"
       /\ \E k \in 1..Len(call.out.ops) :
            call.out.ops[k].cfg = call.in.order[i] /\ call.out.ops[k].op = "write"
       /\ \E k \in 1..Len(call.out.ops) :
            call.out.ops[k].cfg = call.in.order[i] /\ call.out.ops[k].op = "commit"

(***************************************************************************)
(* C25.  NewGitClient clones exactly when the local directory of the git   *)
(* target does not exist, and otherwise opens the directory as it is,      *)
(* whatever remote and branch it was cloned from: in every iteration of    *)
(* every pass a clone is attempted only for a directory the host does not  *)
(* hold, a directory the host holds is opened, and it keeps its origin and  *)
(* its branch.  A directory is therefore cloned once and opened by every   *)
(* later pass.                                                             *)
(***************************************************************************)
NewOps == SubSeq(ops', Len(ops) + 1, Len(ops'))

DirOfTenant(name) ==
  LocalDir(gitMap[MapKey(cfgMap[name].spec.gitRef, cfgMap[name].namespace)])

C25_CloneOnlyWhenAbsent ==
  [][ (passPc = "loop" /\ Len(ops') > Len(ops)) =>
        \A k \in 1..Len(NewOps) :
          /\ NewOps[k].op \in {"clone", "cloneFail"} =>
               DirOfTenant(NewOps[k].cfg) \notin DOMAIN wc
          /\ NewOps[k].op = "open" =>
               /\ NewOps[k].arg = DirOfTenant(NewOps[k].cfg)
               /\ NewOps[k].arg \in DOMAIN wc
               /\ wc'[NewOps[k].arg].origin = wc[NewOps[k].arg].origin
               /\ wc'[NewOps[k].arg].branch = wc[NewOps[k].arg].branch
          /\ NewOps[k].op \in {"list", "write", "add", "commit"} =>
               \E j \in 1..Len(NewOps) :
                 NewOps[j].op = IF DirOfTenant(NewOps[k].cfg) \in DOMAIN wc
                                THEN "open" ELSE "clone" ]_vars

(* A pass opened a directory whose origin is not the URL of the git target *)
(* it was opened for.                                                      *)
C25_OpenedAnotherRemote ==
  /\ passPc = "loop"
  /\ \E k \in 1..Len(ops) :
       /\ ops[k].op = "open"
       /\ wc[ops[k].arg].origin # gitMap[MapKey(NameG1, NsA)].repositoryURL
       /\ gitMap[MapKey(NameG1, NsA)].protocol = "ssh"
       /\ ops[k].cfg = Cfg1.name

(***************************************************************************)
(* C26.  A pass attempts exactly one commit for a tenant config whose git  *)
(* target was cloned or opened, however many include filters the tenant    *)
(* config has, and a dry-run client pushes nothing: two passes make two    *)
(* commit attempts and no push.                                            *)
(***************************************************************************)
CountOps(log, op) == Cardinality({ k \in 1..Len(log) : log[k].op = op })

C26_OneCommitPerPair ==
  /\ (call.fn \in {"sync", "sync0"} /\ call.done) =>
       CountOps(call.out.ops, "commit") = 1 /\ CountOps(call.out.ops, "push") = 0
  /\ (call.fn = "syncTwice" /\ call.done) =>
       /\ CountOps(call.out.first.ops, "commit") = 1
       /\ CountOps(call.out.second.ops, "commit") = 1
       /\ CountOps(call.out.first.ops \o call.out.second.ops, "push") = 0

(* Two passes of part_001 over a tenant config of two filters that both    *)
(* wrote: one commit attempt each.                                         *)
C26_TwoPassesTwoCommits ==
  /\ call.fn = "syncTwice" /\ call.done
  /\ CountOps(call.out.first.ops, "write") = 2
  /\ CountOps(call.out.first.ops, "list") = 2
  /\ CountOps(call.out.first.ops, "commit") = 1
  /\ CountOps(call.out.second.ops, "commit") = 1

(***************************************************************************)
(* C27.  For a tenant config whose namespace selector is "all" every       *)
(* include filter the cluster can resolve makes one list call in each      *)
(* namespace the cluster reports, and none that spans the cluster: stated  *)
(* of sync of part_001 and of the sync calls of a tenant config in         *)
(* part_000, the list of the namespaces having succeeded.                  *)
(***************************************************************************)
ListCalls(log, kind, namespace) ==
  Cardinality({ k \in 1..Len(log) :
                  /\ log[k].op \in {"list", "listFail"}
                  /\ log[k].arg = <<kind, namespace>> })

Resolvable(cfg, kind) ==
  { i \in 1..Len(cfg.spec.includeResource) :
      /\ cfg.spec.includeResource[i].name = kind
      /\ <<cfg.spec.includeResource[i].apiVersion, kind>> \in Discovery }

C27_AllListsEachNamespace ==
  ( /\ call.fn \in {"sync", "sync0"} /\ call.done
    /\ call.in.cfg.namespace = AllSelector
    /\ (call.fn = "sync0" => call.in.o.nsList = "ok") )
  => \A i \in 1..Len(call.in.cfg.spec.includeResource) :
       LET kind == call.in.cfg.spec.includeResource[i].name IN
         /\ ListCalls(call.out.ops, kind, NoStr) = 0
         /\ \A n \in 1..Len(ClusterNamespaces) :
              ListCalls(call.out.ops, kind, ClusterNamespaces[n])
                = Cardinality(Resolvable(call.in.cfg, kind))

(* part_000, selector "all": the Pod filter listed the namespace a and the *)
(* namespace b.                                                            *)
C27_ListedEveryNamespace ==
  /\ call.fn = "sync0" /\ call.done
  /\ call.in.cfg.namespace = AllSelector
  /\ call.in.o.nsList = "ok"
  /\ Resolvable(call.in.cfg, PodKind) # {}
  /\ ListCalls(call.out.ops, PodKind, NsA) = Cardinality(Resolvable(call.in.cfg, PodKind))
  /\ ListCalls(call.out.ops, PodKind, NsB) = Cardinality(Resolvable(call.in.cfg, PodKind))

(***************************************************************************)
(* C28.  Continuous mode.  Once the context is cancelled the scheduler     *)
(* returns at some time: at once from its select when no pass is in        *)
(* progress, after the pass when one is.  The cancellation ends no pass in *)
(* progress: the scheduler stays where it is, inside the pass when it is   *)
(* in one, and it returns only between passes.                             *)
(***************************************************************************)
C28_CancelledSchedulerReturns ==
  /\ (~oneShot /\ cancelled) ~> (sched = "returned")
  /\ [][ (~oneShot /\ ~cancelled /\ cancelled') => UNCHANGED << sched, active, passPc >> ]_vars
  /\ [][ (~oneShot /\ sched # "returned" /\ sched' = "returned")
           => (cancelled /\ active = 0 /\ passPc = "idle" /\ UNCHANGED passVars) ]_vars

(* The scheduler of the continuous mode returned after the cancellation. *)
C28_ReturnedAfterCancel ==
  /\ ~oneShot /\ cancelled
  /\ sched = "returned"
  /\ active = 0 /\ passPc = "idle"

(***************************************************************************)
(* C29.  Continuous mode: once the context is cancelled the scheduler      *)
(* starts no pass, a tick waiting in ticker.C or not.                      *)
(***************************************************************************)
C29_NoPassAfterCancel ==
  [][ (~oneShot /\ cancelled) => active' <= active ]_vars

(* The scheduler returned at the cancellation and left the tick in         *)
(* ticker.C.                                                               *)
C29_ReturnedWithTickPending ==
  /\ ~oneShot /\ cancelled /\ tick
  /\ sched = "returned"

(***************************************************************************)
(* C30.  A pass handles every tenant config of the loaded catalog exactly  *)
(* once: for every (tenant config, git target) pair of the catalog the     *)
(* pass ends one iteration, with the synchronization done or failed, two   *)
(* tenant configs of one name in two namespaces included.                  *)
(***************************************************************************)
IterationsOf(log, cfg) ==
  { k \in 1..Len(log) :
      /\ log[k].cfg = cfg.name
      /\ log[k].op \in {"synced", "syncFail", "clientFail", "gitNotFound"}
      /\ log[k].arg = MapKey(cfg.spec.gitRef, cfg.namespace) }

C30_EveryTenantOncePerPass ==
  (call.fn = "syncResources" /\ call.done) =>
    \A i \in 1..Len(call.in.m.cfg) :
      Cardinality(IterationsOf(call.out.ops, call.in.m.cfg[i].config)) = 1

(* A catalog of two tenant configs of different names: the pass handled    *)
(* each of them once.                                                      *)
C30_BothNamesHandled ==
  /\ call.fn = "syncResources" /\ call.done
  /\ Len(call.in.m.cfg) = 2
  /\ call.in.m.cfg[1].config.name # call.in.m.cfg[2].config.name
  /\ \A i \in 1..2 :
       Cardinality(IterationsOf(call.out.ops, call.in.m.cfg[i].config)) = 1

(***************************************************************************)
(* C31.  A pass leaves the catalog as it was: the git-target objects of    *)
(* the ConfigManager, which the map of the pass points to, hold after the  *)
(* pass the field values they held before it, an ssh target that was       *)
(* cloned or opened included.                                              *)
(***************************************************************************)
C31_PassLeavesCatalog ==
  (call.fn = "syncResources" /\ call.done) =>
    /\ call.out.gitMap = GetGitMap(call.in.m)
    /\ WriteThrough(call.in.m, call.out.gitMap) = call.in.m

(* A pass cloned the https targets of two tenant configs, wrote and        *)
(* committed, and the git-target objects are as they were.                 *)
C31_HttpsCatalogUnchanged ==
  /\ call.fn = "syncResources" /\ call.done
  /\ Len(call.in.order) = 2
  /\ \A i \in 1..2 :
       \E k \in 1..Len(call.out.ops) :
         call.out.ops[k].cfg = call.in.order[i] /\ call.out.ops[k].op = "commit"
  /\ WriteThrough(call.in.m, call.out.gitMap) = call.in.m

(***************************************************************************)
(* C32.  A git target works in a clone of its own repository: the working  *)
(* copy a tenant config of a pass cloned or opened has the URL of the      *)
(* tenant config's git target as its origin, the remote CommitAndPush      *)
(* pushes to; two git targets of different URLs do not meet in one         *)
(* directory.                                                              *)
(***************************************************************************)
TargetOf(m, name) ==
  GetGitMap(m)[MapKey(GetConfigMap(m)[name].spec.gitRef, GetConfigMap(m)[name].namespace)]

TargetUrl(cfg) ==
  CASE cfg.protocol = "https" -> HttpsScheme \o cfg.repositoryURL
    [] cfg.protocol = "http" -> HttpScheme \o cfg.repositoryURL
    [] OTHER -> cfg.repositoryURL

C32_CopyOfOwnRemote ==
  (call.fn = "syncResources" /\ call.done) =>
    \A k \in 1..Len(call.out.ops) :
      call.out.ops[k].op \in {"clone", "open"} =>
        LET target == TargetOf(call.in.m, call.out.ops[k].cfg) IN
          call.out.wc[LocalDir(target)].origin = TargetUrl(target)

(* Two tenant configs of two git targets in two directories cloned, each   *)
(* working copy from the URL of its target.                                *)
C32_EachCloneOfItsRemote ==
  /\ call.fn = "syncResources" /\ call.done
  /\ Len(call.in.order) = 2
  /\ LocalDir(TargetOf(call.in.m, call.in.order[1]))
       # LocalDir(TargetOf(call.in.m, call.in.order[2]))
  /\ \A i \in 1..2 :
       /\ \E k \in 1..Len(call.out.ops) :
            call.out.ops[k].cfg = call.in.order[i] /\ call.out.ops[k].op = "clone"
       /\ call.out.wc[LocalDir(TargetOf(call.in.m, call.in.order[i]))].origin
            = TargetUrl(TargetOf(call.in.m, call.in.order[i]))

(***************************************************************************)
(* C33.  The files of a working copy only grow in number: a step of the    *)
(* program removes no directory and no file, and a file keeps its bytes    *)
(* unless the step wrote it.  The file of a resource the cluster no longer *)
(* holds is therefore in the working copy, as last written, after every    *)
(* later pass.                                                             *)
(***************************************************************************)
C33_FilesOnlyGrow ==
  [][ \A dir \in DOMAIN wc :
        /\ dir \in DOMAIN wc'
        /\ \A path \in DOMAIN wc[dir].files :
             /\ path \in DOMAIN wc'[dir].files
             /\ wc'[dir].files[path] # wc[dir].files[path] =>
                  \E k \in 1..Len(NewOps) :
                    /\ NewOps[k].op = "write" /\ NewOps[k].arg = path
                    /\ DirOfTenant(NewOps[k].cfg) = dir ]_vars

(* The Pod of namespace a is gone from the cluster; the tenant config c1   *)
(* listed, wrote nothing, and the file an earlier pass wrote for the Pod   *)
(* is in its working copy.                                                 *)
C33_FileOfDeletedResourceKept ==
  /\ cluster[1] = 0
  /\ passPc = "loop"
  /\ \E k \in 1..Len(ops) : ops[k].cfg = Cfg1.name /\ ops[k].op = "list"
  /\ \A k \in 1..Len(ops) : ~(ops[k].cfg = Cfg1.name /\ ops[k].op = "write")
  /\ \E k \in 1..Len(ops) : ops[k].cfg = Cfg1.name /\ ops[k].op = "synced"
  /\ LocalDir(Git1) \in DOMAIN wc
  /\ generateFilePath(Cfg1.spec.folderStructure, ObjectOf(1, 1))
       \in DOMAIN wc[LocalDir(Git1)].files

(* crd with every git target turned to dry-run, its other fields kept. *)
AsDryRun(crd) ==
  [crd EXCEPT !.gitConfigs =
     [i \in 1..Len(crd.gitConfigs) |-> [crd.gitConfigs[i] EXCEPT !.dryRun = TRUE]]]

(* crd holds a git target of dryRun false, and nothing but dryRun can make *)
(* the loader refuse it.                                                   *)
PushTargetOtherwiseValid(crd) ==
  /\ \E i \in 1..Len(crd.gitConfigs) : ~crd.gitConfigs[i].dryRun
  /\ ~LoadConfigStore(AsDryRun(crd)).err

(***************************************************************************)
(* C34.  The catalog loader accepts a git target of dryRun false that      *)
(* satisfies every other field constraint: a Reload that read such a       *)
(* target returned no error, so that the target is in the catalog and a    *)
(* pass can push it.                                                       *)
(***************************************************************************)
C34_PushTargetAccepted ==
  PushTargetOtherwiseValid(lastReload.crd) => ~lastReload.err

(* Reload read a git target of dryRun false, valid in every other field,   *)
(* and returned an error; the catalog holds dry-run targets only.          *)
C34_PushTargetRejected ==
  /\ PushTargetOtherwiseValid(lastReload.crd)
  /\ lastReload.err
  /\ cm = lastReload.before
  /\ \A k \in DOMAIN GetGitMap(cm) : GetGitMap(cm)[k].dryRun

(***************************************************************************)
(* C35.  The ticks that fire while a pass runs are coalesced into one:     *)
(* ticker.C holds at most one tick, so a tick is delivered only into an    *)
(* empty ticker.C, and the receive that starts a pass empties it.  When a  *)
(* pass of the continuous mode starts no tick is pending any more: a long  *)
(* pass is followed by at most one immediate pass, and the pass after that *)
(* waits for a new tick.                                                   *)
(***************************************************************************)
C35_TicksCoalesced ==
  [][ /\ (tick' /\ tick # tick') => (~tick /\ sched' = sched)
      /\ (~oneShot /\ sched # "inPass" /\ sched' = "inPass") => (tick /\ ~tick')
      /\ (tick /\ sched = "inPass") => ~ENABLED Tick ]_vars

(* A pass of the continuous mode is running, a tick fired during it and is *)
(* pending, and the ticker delivers no second one.                         *)
C35_TickPendingDuringPass ==
  /\ ~oneShot /\ sched = "inPass" /\ passPc = "loop"
  /\ tick
  /\ ~ENABLED Tick

====
